---- MODULE Spec2Model ----
(***************************************************************************)
(* Model of the image-layout pipeline, the image fetcher and the           *)
(* resumable download-and-build loop of comick_downloader.py.              *)
(*                                                                         *)
(* Eight specifications share this module; each has its own initial         *)
(* predicate and next-state relation over its part of the state:           *)
(*   SpecCompose - process_chapter_images ("fill the gap")                 *)
(*   SpecFetch   - dl_image / _try_download_url                            *)
(*   SpecRun     - the chapter loop of main() with resume and termination  *)
(*   SpecSplit   - the chapter loop of main() with book splitting          *)
(*   SpecImages  - the chapter loop of main() with undecodable downloads   *)
(*   SpecSelect  - the chapter selection of main()                         *)
(*   SpecBest    - select_best_chapter_version                             *)
(*   SpecArchive - build_cbz, build_epub and merge_pdf_files               *)
(***************************************************************************)
EXTENDS Integers, Sequences, FiniteSets, TLC

(***************************************************************************)
(* Bounds of the model                                                     *)
(***************************************************************************)
MaxImages == 3
MaxHeight == 3
MaxTargetH == 3
MaxPool == 3
MaxVersions == 3
MaxUp == 1
MaxItems == 3
MaxPdfPages == 2

(***************************************************************************)
(* State                                                                   *)
(***************************************************************************)
\* process_chapter_images: its arguments, its locals and its position
VARIABLES input_paths, target_w, target_h, img_i, current_image,
          page_buffer, buffer_height, final_pages, cpc

composeVars == <<input_paths, target_w, target_h, img_i, current_image,
                 page_buffer, buffer_height, final_pages, cpc>>

\* dl_image: its argument, its locals, the requests sent and its position
VARIABLES base_url, original_ext, unique_urls_to_try, url_i, attempt,
          has_failed_a_variant, requests, dl_result, fpc

fetchVars == <<base_url, original_ext, unique_urls_to_try, url_i, attempt,
               has_failed_a_variant, requests, dl_result, fpc>>

\* main(): the command line, the temp directory, the process and its output
VARIABLES
    \* command line and adapter (fixed during a run)
    fmt, no_processing, opts, restore_parameters, split_chapter_count,
    split_size_bytes, num_chapters, media, cover_url, language,
    \* the temp directory tmp_<hid>
    tmp_dir, params_file, tmp_files, ch_dir, files, markers,
    \* the process
    pc, resume_mode, ci, ei, raw_image_paths, text_blocks, page_counter,
    chapter_content, chapter_content_size, current_book_content,
    current_book_chapters, current_book_size, original_cover_path,
    current_epub_markers,
    \* the output directory
    parts,
    \* history of the run
    run_no, startup, seen, fetches, packaged, prev

cfgVars == <<fmt, no_processing, opts, restore_parameters,
             split_chapter_count, split_size_bytes, num_chapters, media,
             cover_url, language>>

diskVars == <<tmp_dir, params_file, tmp_files, ch_dir, files, markers>>

memVars == <<pc, resume_mode, ci, ei, raw_image_paths, text_blocks,
             page_counter, chapter_content, chapter_content_size,
             current_book_content, current_book_chapters, current_book_size,
             original_cover_path, current_epub_markers>>

histVars == <<run_no, startup, seen, fetches, packaged, prev>>

runVars == <<cfgVars, diskVars, memVars, parts, histVars>>

\* chapter selection in main(): the adapter's chapter list, the options and
\* the locals
VARIABLES pool, preferred_groups, mix_by_upvote, no_partials,
          chapters_by_num, best_chapters, selected_chapters, spc

selectVars == <<pool, preferred_groups, mix_by_upvote, no_partials,
                chapters_by_num, best_chapters, selected_chapters, spc>>

\* select_best_chapter_version: its argument, its result and its position
VARIABLES versions, best, bpc

bestVars == <<versions, best, bpc>>

\* an archive builder: its arguments, the file it writes and its position
VARIABLES arc_fmt, arc_items, arc_cover, archive, apc

archiveVars == <<arc_fmt, arc_items, arc_cover, archive, apc>>

\* recombine_scaled_images: its arguments, its locals and its position
VARIABLES scaled_images, recombine_height, scaled_i, strip_buffer,
          strip_buffer_height, final_strips, rpc

recombineVars == <<scaled_images, recombine_height, scaled_i, strip_buffer,
                   strip_buffer_height, final_strips, rpc>>

\* merge_pdf_files: its argument, the installed pypdf, the strategies that
\* raise on these inputs, the strategies run so far, the file written and
\* the position
VARIABLES pdf_inputs, pypdf, raising, tried, merged, mpc

mergeVars == <<pdf_inputs, pypdf, raising, tried, merged, mpc>>

\* _wrap_text_line: its arguments (text.split() and max_width), the list it
\* returns and its position
VARIABLES words, max_width, lines, wpc

wrapVars == <<words, max_width, lines, wpc>>

\* render_text_to_images: its arguments (the title and each paragraph given
\* as the number of lines it wraps into, 0 for a blank paragraph), its
\* locals, the lines drawn so far and its position
VARIABLES title_lines, paragraphs, page_height, start_index, para_i, line_i,
          cursor_y, page_index, page_has_content, output_paths, drawn, tpc

renderVars == <<title_lines, paragraphs, page_height, start_index, para_i,
                line_i, cursor_y, page_index, page_has_content, output_paths,
                drawn, tpc>>

layoutVars == <<recombineVars, mergeVars, wrapVars, renderVars>>

auxVars == <<selectVars, bestVars, archiveVars, layoutVars>>

vars == <<composeVars, fetchVars, runVars, auxVars>>

(***************************************************************************)
(* Generic helpers                                                         *)
(***************************************************************************)
RECURSIVE Flatten(_)
Flatten(ss) == IF ss = <<>> THEN <<>> ELSE Head(ss) \o Flatten(Tail(ss))

RECURSIVE SumLen(_)
SumLen(ss) == IF ss = <<>> THEN 0 ELSE Len(Head(ss)) + SumLen(Tail(ss))

SeqsUpTo(S, n) == UNION {[1..k -> S] : k \in 0..n}

Last(s) == s[Len(s)]

(***************************************************************************)
(* PageCompositor: process_chapter_images                                  *)
(*                                                                         *)
(* An input file is either undecodable or a bitmap of w x h pixels.  A     *)
(* decoded, width-normalised image is the sequence of its pixel rows; row  *)
(* j of input i is the pair <<i, j>>, so dropping, duplicating or          *)
(* reordering a row is visible in the output.                              *)
(***************************************************************************)
Undecodable == [ok |-> FALSE, w |-> 0, h |-> 0]

ImageWidths == {2, 4}

TargetWidths == {2}

InputFiles == {Undecodable} \cup
              [ok : {TRUE}, w : ImageWidths, h : 1..MaxHeight]

\* height after img.resize((target_w, int(img.height * scale))),
\* scale = target_w / img.width; unchanged when the width already matches
ResizedHeight(f, tw) == IF f.w # tw THEN (f.h * tw) \div f.w ELSE f.h

\* the rows of input i once opened and resized to the target width
Rows(i, n) == [j \in 1..n |-> <<i, j>>]

\* Image.open(path).convert("RGB") raises for an undecodable file
OpenFails(f) == ~f.ok

\* the try block raises: the file cannot be decoded, or resize is asked for
\* an image of height 0 ("height and width must be > 0")
Unreadable(f, tw) == IF OpenFails(f) THEN TRUE ELSE ResizedHeight(f, tw) < 1

\* current_image.height <= space_left
Fits_TooTall(img, space_left) == Len(img) <= space_left + 1

Fits(img, space_left) == Len(img) <= space_left

\* current_image.crop((0, 0, target_w, space_left))
CropTop(img, space_left) == SubSeq(img, 1, space_left)

\* current_image.crop((0, space_left, target_w, current_image.height))
CropRest_DropsRow(img, space_left) == SubSeq(img, space_left + 2, Len(img))

CropRest(img, space_left) == SubSeq(img, space_left + 1, Len(img))

\* combine_images returns None for an empty list, a non-positive width or a
\* zero total height
CombineIsNone(images, width) ==
    \/ images = <<>>
    \/ width <= 0
    \/ SumLen(images) <= 0

\* combine_images: paste the images one under the other
combine_images(images, width) == Flatten(images)

AppendPage(pages, images, width) ==
    IF CombineIsNone(images, width) THEN pages
    ELSE Append(pages, combine_images(images, width))

ComposeIdle ==
    /\ input_paths = <<>>
    /\ target_w = 0
    /\ target_h = 0
    /\ img_i = 0
    /\ current_image = <<>>
    /\ page_buffer = <<>>
    /\ buffer_height = 0
    /\ final_pages = <<>>
    /\ cpc = "idle"

ComposeInit ==
    /\ input_paths \in SeqsUpTo(InputFiles, MaxImages)
    /\ target_w \in TargetWidths
    /\ target_h \in 0..MaxTargetH
    /\ img_i = 0
    /\ current_image = <<>>
    /\ page_buffer = <<>>
    /\ buffer_height = 0
    /\ final_pages = <<>>
    /\ cpc = "next"

\* for i, path in enumerate(input_paths): open, convert and resize; an
\* exception skips the file
OpenSkip ==
    /\ cpc = "next"
    /\ img_i < Len(input_paths)
    /\ Unreadable(input_paths[img_i + 1], target_w)
    /\ img_i' = img_i + 1
    /\ UNCHANGED <<input_paths, target_w, target_h, current_image,
                   page_buffer, buffer_height, final_pages, cpc>>
    /\ UNCHANGED <<fetchVars, runVars, auxVars>>

OpenImage ==
    /\ cpc = "next"
    /\ img_i < Len(input_paths)
    /\ ~Unreadable(input_paths[img_i + 1], target_w)
    /\ current_image' = Rows(img_i + 1,
                             ResizedHeight(input_paths[img_i + 1], target_w))
    /\ img_i' = img_i + 1
    /\ cpc' = "fill"
    /\ UNCHANGED <<input_paths, target_w, target_h,
                   page_buffer, buffer_height, final_pages>>
    /\ UNCHANGED <<fetchVars, runVars, auxVars>>

\* one iteration of "while True": the image fits the space left
BufferImage ==
    /\ cpc = "fill"
    /\ LET space_left == target_h - buffer_height IN
         /\ Fits(current_image, space_left)
         /\ page_buffer' = Append(page_buffer, current_image)
         /\ buffer_height' = buffer_height + Len(current_image)
    /\ current_image' = <<>>
    /\ cpc' = "next"
    /\ UNCHANGED <<input_paths, target_w, target_h, img_i, final_pages>>
    /\ UNCHANGED <<fetchVars, runVars, auxVars>>

\* one iteration of "while True": fill the gap, finalise the page
FillGap ==
    /\ cpc = "fill"
    /\ LET space_left == target_h - buffer_height
           filled == IF space_left > 0
                     THEN Append(page_buffer,
                                 CropTop(current_image, space_left))
                     ELSE page_buffer
       IN
         /\ ~Fits(current_image, space_left)
         /\ current_image' = IF space_left > 0
                             THEN CropRest(current_image, space_left)
                             ELSE current_image
         /\ final_pages' = AppendPage(final_pages, filled, target_w)
    /\ page_buffer' = <<>>
    /\ buffer_height' = 0
    /\ UNCHANGED <<input_paths, target_w, target_h, img_i, cpc>>
    /\ UNCHANGED <<fetchVars, runVars, auxVars>>

\* after the loop: "if page_buffer:" flush the last page and return
FinalizeLast ==
    /\ cpc = "next"
    /\ img_i = Len(input_paths)
    /\ final_pages' = IF page_buffer # <<>>
                      THEN AppendPage(final_pages, page_buffer, target_w)
                      ELSE final_pages
    /\ cpc' = "returned"
    /\ UNCHANGED <<input_paths, target_w, target_h, img_i, current_image,
                   page_buffer, buffer_height>>
    /\ UNCHANGED <<fetchVars, runVars, auxVars>>

ComposeNext ==
    \/ OpenSkip
    \/ OpenImage
    \/ BufferImage
    \/ FillGap
    \/ FinalizeLast

(***************************************************************************)
(* ImageFetcher: dl_image and _try_download_url                            *)
(*                                                                         *)
(* A URL is given already split as os.path.splitext splits it: base_url    *)
(* and original_ext, the URL being base_url \o original_ext.  Every HTTP   *)
(* request is one step; the host decides whether it succeeds or raises a   *)
(* request exception.                                                      *)
(***************************************************************************)
max_retries == 2

extensions_to_try == <<".webp", ".png", ".jpg", ".jpeg", ".avif">>

BaseUrls == {"h/a", "h/a-m"}

OriginalExts == {"", ".jpg", ".png", ".gif", ".JPG"}

RECURSIVE Member(_, _)
Member(x, s) == IF s = <<>> THEN FALSE
                ELSE IF Head(s) = x THEN TRUE ELSE Member(x, Tail(s))

\* urls_to_try as built by the two append loops
urls_to_try(base, ext) ==
    <<base \o ext>>
    \o [k \in 1..Len(extensions_to_try) |-> base \o extensions_to_try[k]]
    \o <<(base \o "-m") \o ext>>
    \o [k \in 1..Len(extensions_to_try) |->
            (base \o "-m") \o extensions_to_try[k]]

RECURSIVE FromKeys(_, _)
FromKeys(s, keys) ==
    IF s = <<>> THEN keys
    ELSE FromKeys(Tail(s),
                  IF Member(Head(s), keys) THEN keys
                  ELSE Append(keys, Head(s)))

\* list(dict.fromkeys(urls_to_try)): first occurrences, order preserved
Dedupe_KeepsAll(s) == s

Dedupe(s) == FromKeys(s, <<>>)

\* "for attempt in range(max_retries)": another attempt follows this one
RetryLeft_OneMore(a) == a < max_retries

RetryLeft(a) == a < max_retries - 1

FetchIdle ==
    /\ base_url = ""
    /\ original_ext = ""
    /\ unique_urls_to_try = <<>>
    /\ url_i = 0
    /\ attempt = 0
    /\ has_failed_a_variant = FALSE
    /\ requests = <<>>
    /\ dl_result = "idle"
    /\ fpc = "idle"

FetchInit ==
    /\ base_url \in BaseUrls
    /\ original_ext \in OriginalExts
    /\ unique_urls_to_try = Dedupe(urls_to_try(base_url, original_ext))
    /\ url_i = 1
    /\ attempt = 0
    /\ has_failed_a_variant = FALSE
    /\ requests = <<>>
    /\ dl_result = "pending"
    /\ fpc = "try"

Request(ok) == [url |-> unique_urls_to_try[url_i], ok |-> ok]

\* scraper.get succeeds and the body streams to disk: return pth
TrySucceeds ==
    /\ fpc = "try"
    /\ requests' = Append(requests, Request(TRUE))
    /\ dl_result' = "pth"
    /\ fpc' = "done"
    /\ UNCHANGED <<base_url, original_ext, unique_urls_to_try, url_i,
                   attempt, has_failed_a_variant>>
    /\ UNCHANGED <<composeVars, runVars, auxVars>>

\* a request exception with an attempt left: sleep and try again
TryFailsRetry ==
    /\ fpc = "try"
    /\ RetryLeft(attempt)
    /\ requests' = Append(requests, Request(FALSE))
    /\ attempt' = attempt + 1
    /\ UNCHANGED <<base_url, original_ext, unique_urls_to_try, url_i,
                   has_failed_a_variant, dl_result, fpc>>
    /\ UNCHANGED <<composeVars, runVars, auxVars>>

\* the last attempt of a variant fails: _try_download_url returns None and
\* dl_image goes on to the next variant
TryFailsNextVariant ==
    /\ fpc = "try"
    /\ ~RetryLeft(attempt)
    /\ url_i < Len(unique_urls_to_try)
    /\ requests' = Append(requests, Request(FALSE))
    /\ url_i' = url_i + 1
    /\ attempt' = 0
    /\ has_failed_a_variant' = TRUE
    /\ UNCHANGED <<base_url, original_ext, unique_urls_to_try,
                   dl_result, fpc>>
    /\ UNCHANGED <<composeVars, runVars, auxVars>>

\* the last attempt of the last variant fails: dl_image returns None
TryFailsGiveUp ==
    /\ fpc = "try"
    /\ ~RetryLeft(attempt)
    /\ url_i = Len(unique_urls_to_try)
    /\ requests' = Append(requests, Request(FALSE))
    /\ has_failed_a_variant' = TRUE
    /\ dl_result' = "None"
    /\ fpc' = "done"
    /\ UNCHANGED <<base_url, original_ext, unique_urls_to_try, url_i,
                   attempt>>
    /\ UNCHANGED <<composeVars, runVars, auxVars>>

FetchNext ==
    \/ TrySucceeds
    \/ TryFailsRetry
    \/ TryFailsNextVariant
    \/ TryFailsGiveUp

(***************************************************************************)
(* process_chapter_images as a function of the decoded images, built from  *)
(* the same loop body as the step-wise model above                         *)
(***************************************************************************)
RECURSIVE FillLoop(_, _, _, _, _)
FillLoop(cur, buf, pages, tw, th) ==
    LET space_left == th - SumLen(buf) IN
    IF Fits(cur, space_left)
    THEN [buf |-> Append(buf, cur), pages |-> pages]
    ELSE FillLoop(IF space_left > 0 THEN CropRest(cur, space_left) ELSE cur,
                  <<>>,
                  AppendPage(pages,
                             IF space_left > 0
                             THEN Append(buf, CropTop(cur, space_left))
                             ELSE buf,
                             tw),
                  tw, th)

RECURSIVE ComposeFrom(_, _, _, _, _, _)
ComposeFrom(imgs, i, buf, pages, tw, th) ==
    IF i > Len(imgs)
    THEN (IF buf # <<>> THEN AppendPage(pages, buf, tw) ELSE pages)
    ELSE LET r == FillLoop(imgs[i], buf, pages, tw, th)
         IN  ComposeFrom(imgs, i + 1, r.buf, r.pages, tw, th)

process_chapter_images(imgs, tw, th) == ComposeFrom(imgs, 1, <<>>, <<>>, tw, th)

\* resize_chapter_images: one page per decodable image
resize_chapter_images(imgs, tw) == imgs

(***************************************************************************)
(* RunController: the chapter loop of main()                               *)
(*                                                                         *)
(* The temp directory is the persistent state: it survives the process.   *)
(* Files carry the number of the run that wrote them, so that a file left  *)
(* by an earlier run can be told from one written now.                     *)
(***************************************************************************)
MaxRunChapters == 1
MaxSplitChapters == 5
MaxSplitCount == 2
MaxSplitSize == 2
MaxSizeChapters == 3
MaxRuns == 2
MaxFaultChapters == 2
RunImageRows == 2
RunTargetRows == 3

Formats == {"pdf", "epub", "cbz", "none"}

Opts == {1, 2}

Chapters == 1..num_chapters

\* get_processing_params: format is not part of the fingerprint, but the
\* calculated aspect ratio is None for pdf and none and set for epub and cbz
get_processing_params(f, o, np) ==
    [opts |-> o,
     aspect_ratio |-> IF f \in {"pdf", "none"} THEN "None" ELSE "ratio",
     no_processing |-> np]

current_params == get_processing_params(fmt, opts, no_processing)

marker_name == IF no_processing THEN ".download_complete"
               ELSE ".processed_complete"

\* ---- file names ----
Languages == {"en", "fr"}

\* a file written by the run: what the adapter serves depends on
\* args.language (line 1589), so the file carries the language of its run
File(kind, blk, idx) ==
    [kind |-> kind, blk |-> blk, idx |-> idx, run |-> run_no,
     lang |-> language]

Name(f) == [kind |-> f.kind, blk |-> f.blk, idx |-> f.idx]

Names(s) == [k \in 1..Len(s) |-> Name(s[k].file)]

Item(type, f, c) == [type |-> type, file |-> f, ch |-> c]

\* str order of the basenames in <tdir>/processed: "<n>_text_<bb>_<iiii>.jpg"
\* starts with the chapter number and so sorts before "p_<n>_<iiii>.jpg"
NameKey(f) == (IF f.kind = "t" THEN 0 ELSE 10000) + f.blk * 100 + f.idx

\* int(os.path.splitext(os.path.basename(p))[0].split("_")[-1])
CounterKey(f) == f.idx

\* sorted(S, key): S listed by ascending key (keys are distinct on S)
RECURSIVE Sorted(_, _)
Sorted(S, key) ==
    IF S = {} THEN <<>>
    ELSE LET m == CHOOSE x \in S : \A y \in S : key[x] <= key[y]
         IN  <<m>> \o Sorted(S \ {m}, key)

\* glob + sorted of the resume branch
SourceImages(c) ==
    LET raw_images == {f \in files[c] : f.kind \in {"raw_jpg", "junk_jpg"}}
        jpgs == {f \in files[c] : f.kind \in {"p", "t"}}
    IN  IF no_processing
        THEN Sorted(raw_images, [f \in raw_images |-> CounterKey(f)])
        ELSE Sorted(jpgs, [f \in jpgs |-> NameKey(f)])

\* os.path.exists(os.path.join(tdir, marker_name))
MarkerExists(c) == \E m \in markers[c] : m.name = marker_name

\* "Resume mode not supported for this format; re-processing."
ResumeSupported_Never(f) == FALSE

ResumeSupported(f) == f \notin {"epub", "pdf", "none"}

CanReuse(c) ==
    /\ resume_mode
    /\ MarkerExists(c)
    /\ ResumeSupported(fmt)
    /\ SourceImages(c) # <<>>

\* os.path.getsize of a stored file
FileSize == 1

RECURSIVE SeqSum(_)
SeqSum(s) == IF s = <<>> THEN 0 ELSE Head(s) + SeqSum(Tail(s))

Range(s) == {s[k] : k \in 1..Len(s)}

SelectItems(s, types) == SelectSeq(s, LAMBDA it : it.type \in types)

\* ---- what a freshly downloaded chapter is turned into ----
width == 1500

\* a downloaded file whose bytes are not an image ("junk_jpg") is skipped
\* by the except clause of process_chapter_images and resize_chapter_images
Decoded(raw) ==
    LET ok == SelectSeq(raw, LAMBDA f : f.kind # "junk_jpg") IN
    [k \in 1..Len(ok) |-> Rows(k, RunImageRows)]

\* lines 1950-1953: Image.open(p).convert("RGB") on the unprocessed
\* downloads, outside any try
PdfSheetsRaise(raw, f, np) ==
    f = "pdf" /\ np /\ \E k \in DOMAIN raw : raw[k].kind = "junk_jpg"

pages_in_memory(raw, f, blocks) ==
    IF f = "cbz" \/ (f = "epub" /\ blocks = 0)
    THEN process_chapter_images(Decoded(raw), width, RunTargetRows)
    ELSE resize_chapter_images(Decoded(raw), width)

\* save_final_images: p_<n>_<i+1:04d>.jpg for every page, in order
save_final_images(pages) == [i \in 1..Len(pages) |-> File("p", 0, i)]

processed_page_images(raw, f, blocks, np) ==
    IF raw = <<>> THEN <<>>
    ELSE IF np THEN raw
    ELSE save_final_images(pages_in_memory(raw, f, blocks))

\* render_text_to_images for block idx: one page, numbered from
\* start_index = len(processed_page_images) + 1, in <n>_text_<idx>_<page>.jpg
text_pages(ppi, blocks) ==
    [b \in 1..blocks |-> File("t", b - 1, Len(ppi) + b)]

xhtml_files(blocks) == [b \in 1..blocks |-> File("x", b - 1, 0)]

pdf_parts(ppi, blocks) ==
    (IF ppi # <<>> THEN <<File("ipdf", 0, 0)>> ELSE <<>>)
    \o [b \in 1..blocks |-> File("tpdf", b - 1, 0)]

AsItems(fs, type, c) == [k \in 1..Len(fs) |-> Item(type, fs[k], c)]

\* chapter_content of a processed chapter, by format
ChapterContent(c, raw, f, blocks, np) ==
    LET ppi == processed_page_images(raw, f, blocks, np) IN
    CASE f = "cbz"  -> AsItems(ppi \o text_pages(ppi, blocks), "image", c)
      [] f = "epub" -> AsItems(ppi, "image", c)
                       \o AsItems(xhtml_files(blocks), "xhtml", c)
      [] f = "pdf"  -> LET pp == pdf_parts(ppi, blocks) IN
                       IF pp = <<>> THEN <<>>
                       ELSE IF Len(pp) = 1 THEN <<Item("pdf", pp[1], c)>>
                       ELSE <<Item("pdf", File("mpdf", c, 0), c)>>
      [] f = "none" -> IF blocks > 0
                       THEN <<Item("text_file", File("txt", 0, 0), c)>>
                       ELSE <<>>

\* the files the processing step leaves in the chapter directory
ChapterFilesWritten(c, raw, f, blocks, np) ==
    LET ppi == processed_page_images(raw, f, blocks, np)
        saved == IF np THEN {} ELSE Range(ppi)
    IN
    saved \cup
    CASE f = "cbz"  -> Range(text_pages(ppi, blocks))
      [] f = "epub" -> Range(xhtml_files(blocks))
      [] f = "pdf"  -> IF Len(pdf_parts(ppi, blocks)) = 1
                       THEN Range(pdf_parts(ppi, blocks)) ELSE {}
      [] f = "none" -> IF blocks > 0 THEN {File("txt", 0, 0)} ELSE {}

\* the merged chapter PDF is written to the main temp directory
MergedPdfWritten(c, raw, f, blocks, np) ==
    IF f = "pdf" /\ Len(pdf_parts(processed_page_images(raw, f, blocks, np),
                                  blocks)) > 1
    THEN {File("mpdf", c, 0)} ELSE {}

\* "if chapter_content:" guards the marker
ShouldWriteMarker_Always(content) == TRUE

ShouldWriteMarker(content) == content # <<>>

OnDisk(f, c) == f \in files[c] \/ f \in tmp_files

\* ---- book parts ----
Part(content, chapters, split) ==
    [chapters |-> chapters, content |-> Names(content), split |-> split]

\* the items an archive of format f is built from
ArchiveInputs(content, f) ==
    CASE f = "pdf"  -> SelectItems(content, {"pdf"})
      [] f = "cbz"  -> SelectItems(content, {"image"})
      [] f = "epub" -> content
      [] f = "none" -> <<>>

\* build_book_part reads book_chapters[0] once book_content is non-empty
BuildPartRaises(content, chapters) == content # <<>> /\ chapters = <<>>

\* does build_book_part write an archive file
PartWritten(content, f) ==
    /\ content # <<>>
    /\ f # "none"
    /\ (f = "pdf" => ArchiveInputs(content, f) # <<>>)

\* every part is written to the same place
build_book_part_Overwrites(ps, content, chapters, f) ==
    IF PartWritten(content, f)
    THEN <<Part(ArchiveInputs(content, f), chapters, TRUE)>>
    ELSE ps

build_book_part(ps, content, chapters, f) ==
    IF PartWritten(content, f)
    THEN Append(ps, Part(ArchiveInputs(content, f), chapters, TRUE))
    ELSE ps

\* the per-chapter and merged PDFs are removed once the part is merged
PdfInputsRemoved(content, f) ==
    IF f = "pdf" THEN {it.file : it \in Range(SelectItems(content, {"pdf"}))}
    ELSE {}

\* len(current_book_chapters) >= split_chapter_count
ChapterLimitReached_Late(chs, k) == Len(chs) > k

ChapterLimitReached(chs, k) == Len(chs) >= k

should_split_by_chapters(chs, k) == k > 0 /\ ChapterLimitReached(chs, k)

should_split_by_size(content, size, add, limit) ==
    limit > 0 /\ content # <<>> /\ size + add > limit

\* ---- states ----
\* run_params.json: absent, opened for writing but not yet written (not
\* parseable), or the JSON of a parameter dictionary
NoParamsFile == [state |-> "absent"]

EmptyParamsFile == [state |-> "partial"]

\* json.dump then json.load gives back an equal dictionary: the values are
\* int, str, bool, None and lists of str
ParamsFile(p) == [state |-> "json", data |-> p]

NotSeen == [at |-> FALSE, marker |-> FALSE, dir |-> FALSE, found |-> FALSE,
            reused |-> FALSE]

\* the previous process: how it ended, its command line, and what it
\* packaged if it ran to the end and kept the temp directory
NoPrev == [exit |-> "none"]

Ended(how) == [exit |-> how, fmt |-> fmt, params |-> current_params,
               packaged |-> IF how = "kept" THEN packaged
                            ELSE [c \in Chapters |-> <<>>]]

MemInit ==
    /\ resume_mode = FALSE
    /\ ci = 1
    /\ ei = 0
    /\ raw_image_paths = <<>>
    /\ text_blocks = 0
    /\ page_counter = 1
    /\ chapter_content = <<>>
    /\ chapter_content_size = 0
    /\ current_book_content = <<>>
    /\ current_book_chapters = <<>>
    /\ current_book_size = 0
    /\ original_cover_path = FALSE
    /\ current_epub_markers = <<>>

\* the memory of a process that has ended, or not yet started
MemReset ==
    /\ resume_mode' = FALSE
    /\ ci' = 1
    /\ ei' = 0
    /\ raw_image_paths' = <<>>
    /\ text_blocks' = 0
    /\ page_counter' = 1
    /\ chapter_content' = <<>>
    /\ chapter_content_size' = 0
    /\ current_book_content' = <<>>
    /\ current_book_chapters' = <<>>
    /\ current_book_size' = 0
    /\ original_cover_path' = FALSE
    /\ current_epub_markers' = <<>>

HistReset ==
    /\ startup' = "none"
    /\ seen' = [c \in Chapters |-> NotSeen]
    /\ fetches' = [c \in Chapters |-> 0]
    /\ packaged' = [c \in Chapters |-> <<>>]

DiskInit ==
    /\ tmp_dir = FALSE
    /\ params_file = NoParamsFile
    /\ tmp_files = {}
    /\ ch_dir = [c \in Chapters |-> FALSE]
    /\ files = [c \in Chapters |-> {}]
    /\ markers = [c \in Chapters |-> {}]

RunIdle ==
    /\ fmt = "none"
    /\ no_processing = FALSE
    /\ opts = 1
    /\ restore_parameters = FALSE
    /\ split_chapter_count = 0
    /\ split_size_bytes = 0
    /\ num_chapters = 0
    /\ media = <<>>
    /\ cover_url = FALSE
    /\ language = "en"
    /\ DiskInit
    /\ pc = "idle"
    /\ MemInit
    /\ parts = <<>>
    /\ run_no = 0
    /\ startup = "none"
    /\ seen = <<>>
    /\ fetches = <<>>
    /\ packaged = <<>>
    /\ prev = NoPrev

\* the chapters' media lists the resume model ranges over
RunMedia == {<<"url">>, <<"url", "text">>, <<"text">>, <<"dead">>,
             <<"binary">>, <<"url", "binary">>}

RunInit ==
    /\ fmt \in Formats
    /\ no_processing \in BOOLEAN
    /\ opts = 1
    /\ restore_parameters = FALSE
    /\ split_chapter_count = 0
    /\ split_size_bytes = 0
    /\ num_chapters \in 1..MaxRunChapters
    /\ media \in [Chapters -> RunMedia]
    /\ cover_url = TRUE
    /\ language = "en"
    /\ DiskInit
    /\ pc = "check"
    /\ MemInit
    /\ parts = <<>>
    /\ run_no = 1
    /\ startup = "none"
    /\ seen = [c \in Chapters |-> NotSeen]
    /\ fetches = [c \in Chapters |-> 0]
    /\ packaged = [c \in Chapters |-> <<>>]
    /\ prev = NoPrev

\* the chapters' media lists of the model of undecodable downloads
FaultMedia == {<<"url">>, <<"junk">>, <<"url", "junk">>, <<"dead", "junk">>,
               <<"text">>, <<"dead">>}

\* one run without splitting, of every format, with and without
\* --no-processing
ImagesInit ==
    /\ fmt \in Formats
    /\ no_processing \in BOOLEAN
    /\ opts = 1
    /\ restore_parameters = FALSE
    /\ split_chapter_count = 0
    /\ split_size_bytes = 0
    /\ num_chapters \in 1..MaxFaultChapters
    /\ media \in [Chapters -> FaultMedia]
    /\ cover_url = FALSE
    /\ language = "en"
    /\ DiskInit
    /\ pc = "check"
    /\ MemInit
    /\ parts = <<>>
    /\ run_no = 1
    /\ startup = "none"
    /\ seen = [c \in Chapters |-> NotSeen]
    /\ fetches = [c \in Chapters |-> 0]
    /\ packaged = [c \in Chapters |-> <<>>]
    /\ prev = NoPrev

\* runs of one series in one language after the other, the chapters served
\* being images, text or nothing
MaxLanguageChapters == 2

LanguageInit ==
    /\ fmt \in Formats
    /\ no_processing \in BOOLEAN
    /\ opts = 1
    /\ restore_parameters = FALSE
    /\ split_chapter_count = 0
    /\ split_size_bytes = 0
    /\ num_chapters \in 1..MaxLanguageChapters
    /\ media \in [Chapters -> {<<"url">>, <<"text">>, <<"dead">>}]
    /\ cover_url = FALSE
    /\ language \in Languages
    /\ DiskInit
    /\ pc = "check"
    /\ MemInit
    /\ parts = <<>>
    /\ run_no = 1
    /\ startup = "none"
    /\ seen = [c \in Chapters |-> NotSeen]
    /\ fetches = [c \in Chapters |-> 0]
    /\ packaged = [c \in Chapters |-> <<>>]
    /\ prev = NoPrev

\* the chapters' media lists the splitting model ranges over
SplitMedia == {<<"url">>, <<"text">>, <<"dead">>}

\* the chapters' media lists the size-splitting model ranges over: chapters
\* of one and of two content files
SizeMedia == {<<"url">>, <<"url", "text">>, <<"text">>}

\* multipliers.get(unit, 1) after unit.replace("B", "")
multiplier(unit) ==
    CASE unit \in {"", "B"} -> 1
      [] unit \in {"K", "KB"} -> 1024
      [] unit \in {"M", "MB"} -> 1024 * 1024

\* parse_size of a string made of a whole number and a unit
parse_size(value, unit) == value * multiplier(unit)

\* the thresholds --split is given: 1B .. MaxSplitSize B, and the same in KB
SplitSizes == {parse_size(v, u) : v \in 1..MaxSplitSize, u \in {"B", "KB"}}

SplitInit ==
    /\ fmt \in Formats
    /\ no_processing = FALSE
    /\ opts = 1
    /\ restore_parameters = FALSE
    /\ \/ /\ split_chapter_count \in 0..MaxSplitCount
          /\ split_size_bytes = 0
          /\ num_chapters \in 1..MaxSplitChapters
          /\ media \in [Chapters -> SplitMedia]
       \/ /\ split_chapter_count = 0
          /\ split_size_bytes \in SplitSizes
          /\ num_chapters \in 1..MaxSizeChapters
          /\ media \in [Chapters -> SizeMedia]
    /\ cover_url \in (IF fmt \in {"epub", "cbz"} THEN BOOLEAN ELSE {FALSE})
    /\ language = "en"
    /\ DiskInit
    /\ pc = "check"
    /\ MemInit
    /\ parts = <<>>
    /\ run_no = 1
    /\ startup = "none"
    /\ seen = [c \in Chapters |-> NotSeen]
    /\ fetches = [c \in Chapters |-> 0]
    /\ packaged = [c \in Chapters |-> <<>>]
    /\ prev = NoPrev

\* rm_tree(main_tmp_dir)
RemoveTmpDir ==
    /\ tmp_dir' = FALSE
    /\ params_file' = NoParamsFile
    /\ tmp_files' = {}
    /\ ch_dir' = [c \in Chapters |-> FALSE]
    /\ files' = [c \in Chapters |-> {}]
    /\ markers' = [c \in Chapters |-> {}]

\* what the run found on disk when it started
FoundOnDisk ==
    IF ~tmp_dir THEN "no_dir"
    ELSE IF params_file = ParamsFile(current_params) THEN "equal_params"
    ELSE IF params_file = NoParamsFile THEN "no_params"
    ELSE IF params_file = EmptyParamsFile THEN "unreadable_params"
    ELSE "other_params"

\* lines 1466-1503, --restore-parameters: the options of the parameter file
\* replace those of the command line, the format stays
RestoreParameters ==
    /\ pc = "restore"
    /\ params_file.state = "json"
    /\ opts' = params_file.data.opts
    /\ no_processing' = params_file.data.no_processing
    /\ pc' = "check"
    /\ UNCHANGED <<fmt, restore_parameters, split_chapter_count,
                   split_size_bytes, num_chapters, media, cover_url,
                   language, diskVars,
                   resume_mode, ci, ei, raw_image_paths, text_blocks,
                   page_counter, chapter_content, chapter_content_size,
                   current_book_content, current_book_chapters,
                   current_epub_markers,
                   current_book_size, original_cover_path, parts, histVars>>
    /\ UNCHANGED <<composeVars, fetchVars, auxVars>>

\* --restore-parameters without a parameter file that parses: sys.exit
RestoreFails ==
    /\ pc = "restore"
    /\ params_file.state # "json"
    /\ startup' = FoundOnDisk
    /\ pc' = "exited"
    /\ UNCHANGED <<cfgVars, diskVars, resume_mode, ci, ei, raw_image_paths,
                   text_blocks, page_counter, chapter_content,
                   chapter_content_size, current_book_content,
                   current_book_chapters,
                   current_epub_markers, current_book_size,
                   original_cover_path, parts, run_no, seen, fetches,
                   packaged, prev>>
    /\ UNCHANGED <<composeVars, fetchVars, auxVars>>

\* the verdict of the block "if os.path.isdir(main_tmp_dir):"
\*   fresh    - no temp directory
\*   resume   - run_params.json loads and equals current_params
\*   mismatch - missing, not parseable (JSONDecodeError) or different
StartupVerdict_TrustsDir(dir, pfile, cur) ==
    IF ~dir THEN "fresh" ELSE "resume"

StartupVerdict(dir, pfile, cur) ==
    IF ~dir THEN "fresh"
    ELSE IF pfile.state = "absent" THEN "mismatch"
    ELSE IF pfile.state = "partial" THEN "mismatch"
    ELSE IF pfile.data = cur THEN "resume"
    ELSE "mismatch"

\* lines 1650-1677: decide between resuming and starting clean
CheckTempDir ==
    /\ pc = "check"
    /\ LET v == StartupVerdict(tmp_dir, params_file, current_params) IN
         /\ startup' = FoundOnDisk
         /\ resume_mode' = (v = "resume")
         /\ IF v = "mismatch" THEN RemoveTmpDir ELSE UNCHANGED diskVars
         /\ pc' = IF v = "resume" THEN "cover" ELSE "persist"
    /\ UNCHANGED <<cfgVars, ci, ei, raw_image_paths, text_blocks,
                   page_counter, chapter_content, chapter_content_size,
                   current_book_content, current_book_chapters,
                   current_epub_markers,
                   current_book_size, original_cover_path, parts,
                   run_no, seen, fetches, packaged, prev>>
    /\ UNCHANGED <<composeVars, fetchVars, auxVars>>

\* os.makedirs(main_tmp_dir, exist_ok=True)
MakeTmpDir ==
    /\ pc = "persist"
    /\ tmp_dir' = TRUE
    /\ pc' = "open"
    /\ UNCHANGED <<cfgVars, params_file, tmp_files, ch_dir, files, markers,
                   resume_mode, ci, ei, raw_image_paths, text_blocks,
                   page_counter, chapter_content, chapter_content_size,
                   current_book_content, current_book_chapters,
                   current_epub_markers,
                   current_book_size, original_cover_path, parts, histVars>>
    /\ UNCHANGED <<composeVars, fetchVars, auxVars>>

\* open(params_path, "w") creates an empty file
OpenParamsFile ==
    /\ pc = "open"
    /\ params_file' = EmptyParamsFile
    /\ pc' = "dump"
    /\ UNCHANGED <<cfgVars, tmp_dir, tmp_files, ch_dir, files, markers,
                   resume_mode,
                   ci, ei, raw_image_paths, text_blocks, page_counter,
                   chapter_content, chapter_content_size,
                   current_book_content, current_book_chapters,
                   current_epub_markers,
                   current_book_size, original_cover_path, parts, histVars>>
    /\ UNCHANGED <<composeVars, fetchVars, auxVars>>

\* json.dump(current_params, f) and close
DumpParams ==
    /\ pc = "dump"
    /\ params_file' = ParamsFile(current_params)
    /\ pc' = "cover"
    /\ UNCHANGED <<cfgVars, tmp_dir, tmp_files, ch_dir, files, markers,
                   resume_mode, ci, ei, raw_image_paths, text_blocks,
                   page_counter, chapter_content, chapter_content_size,
                   current_book_content, current_book_chapters,
                   current_epub_markers,
                   current_book_size, original_cover_path, parts, histVars>>
    /\ UNCHANGED <<composeVars, fetchVars, auxVars>>

CoverFile == File("cover", 0, 0)

\* lines 1690-1707: the cover is fetched for epub and cbz; a cbz book starts
\* with it.  got is whether a cover URL exists and dl_image returned a path.
FetchCover ==
    /\ pc = "cover"
    /\ LET got == cover_url /\ fmt \in {"epub", "cbz"} IN
         /\ original_cover_path' = got
         /\ tmp_files' = IF got
                         THEN {f \in tmp_files : f.kind # "cover"}
                              \cup {CoverFile}
                         ELSE tmp_files
         /\ IF got /\ fmt = "cbz"
            THEN /\ current_book_content' = <<Item("image", CoverFile, 0)>>
                 /\ current_book_size' = FileSize
            ELSE UNCHANGED <<current_book_content, current_book_size>>
    /\ pc' = "chapter"
    /\ UNCHANGED <<cfgVars, tmp_dir, params_file, ch_dir, files, markers,
                   resume_mode, ci, ei, raw_image_paths, text_blocks,
                   page_counter, chapter_content, chapter_content_size,
                   current_book_chapters,
                   current_epub_markers, parts, histVars>>
    /\ UNCHANGED <<composeVars, fetchVars, auxVars>>

Observed(c, reused) ==
    [at |-> TRUE,
     marker |-> \E m \in markers[c] : m.name = marker_name,
     dir |-> ch_dir[c],
     found |-> SourceImages(c) # <<>>,
     reused |-> reused]

\* lines 1724-1762, resume branch taken: collect the files of the chapter
ReuseChapter ==
    /\ pc = "chapter"
    /\ ci <= num_chapters
    /\ CanReuse(ci)
    /\ chapter_content' = AsItems(SourceImages(ci), "image", ci)
    /\ chapter_content_size' = Len(SourceImages(ci)) * FileSize
    /\ seen' = [seen EXCEPT ![ci] = Observed(ci, TRUE)]
    /\ pc' = "book"
    /\ UNCHANGED <<cfgVars, diskVars, resume_mode, ci, ei, raw_image_paths,
                   text_blocks, page_counter, current_book_content,
                   current_book_chapters,
                   current_epub_markers, current_book_size,
                   original_cover_path, parts, run_no, startup, fetches,
                   packaged, prev>>
    /\ UNCHANGED <<composeVars, fetchVars, auxVars>>

\* lines 1724-1780, chapter to be processed: the chapter directory is removed
\* and the adapter is asked for the media list
StartChapter ==
    /\ pc = "chapter"
    /\ ci <= num_chapters
    /\ ~CanReuse(ci)
    /\ ch_dir' = [ch_dir EXCEPT ![ci] = FALSE]
    /\ files' = [files EXCEPT ![ci] = {}]
    /\ markers' = [markers EXCEPT ![ci] = {}]
    /\ seen' = [seen EXCEPT ![ci] = Observed(ci, FALSE)]
    /\ fetches' = [fetches EXCEPT ![ci] = @ + 1]
    /\ raw_image_paths' = <<>>
    /\ text_blocks' = 0
    /\ page_counter' = 1
    /\ chapter_content' = <<>>
    /\ chapter_content_size' = 0
    /\ ei' = 1
    /\ pc' = IF media[ci] = <<>> THEN "downloaded" ELSE "entries"
    /\ UNCHANGED <<cfgVars, tmp_dir, params_file, tmp_files, resume_mode, ci,
                   current_book_content, current_book_chapters,
                   current_epub_markers,
                   current_book_size, original_cover_path, parts, run_no,
                   startup, packaged, prev>>
    /\ UNCHANGED <<composeVars, fetchVars, auxVars>>

AfterEntry == IF ei = Len(media[ci]) THEN "downloaded" ELSE "entries"

\* a text entry is kept as a text block
EntryText ==
    /\ pc = "entries"
    /\ media[ci][ei] = "text"
    /\ text_blocks' = text_blocks + 1
    /\ ei' = ei + 1
    /\ pc' = AfterEntry
    /\ UNCHANGED <<cfgVars, diskVars, resume_mode, ci, raw_image_paths,
                   page_counter, chapter_content, chapter_content_size,
                   current_book_content, current_book_chapters,
                   current_epub_markers,
                   current_book_size, original_cover_path, parts, histVars>>
    /\ UNCHANGED <<composeVars, fetchVars, auxVars>>

\* a binary_image entry is written to <tdir>/<n>_<counter><ext>
EntryBinary ==
    /\ pc = "entries"
    /\ media[ci][ei] = "binary"
    /\ ch_dir[ci]
    /\ files' = [files EXCEPT ![ci] = @ \cup {File("raw_png", 0, page_counter)}]
    /\ raw_image_paths' = Append(raw_image_paths,
                                 File("raw_png", 0, page_counter))
    /\ page_counter' = page_counter + 1
    /\ ei' = ei + 1
    /\ pc' = AfterEntry
    /\ UNCHANGED <<cfgVars, tmp_dir, params_file, tmp_files, ch_dir, markers,
                   resume_mode, ci, text_blocks, chapter_content,
                   chapter_content_size, current_book_content,
                   current_book_chapters,
                   current_epub_markers, current_book_size,
                   original_cover_path, parts, histVars>>
    /\ UNCHANGED <<composeVars, fetchVars, auxVars>>

\* open(pth, "wb") raises FileNotFoundError when nothing has created the
\* chapter directory yet; the exception is not caught and ends the process
EntryBinaryRaises ==
    /\ pc = "entries"
    /\ media[ci][ei] = "binary"
    /\ ~ch_dir[ci]
    /\ pc' = "aborted"
    /\ MemReset
    /\ parts' = <<>>
    /\ UNCHANGED <<cfgVars, diskVars, histVars>>
    /\ UNCHANGED <<composeVars, fetchVars, auxVars>>

\* dl_image returns the path: <tdir>/<n>_<counter>.jpg is on disk
EntryUrl ==
    /\ pc = "entries"
    /\ media[ci][ei] = "url"
    /\ ch_dir' = [ch_dir EXCEPT ![ci] = TRUE]
    /\ files' = [files EXCEPT ![ci] = @ \cup {File("raw_jpg", 0, page_counter)}]
    /\ raw_image_paths' = Append(raw_image_paths,
                                 File("raw_jpg", 0, page_counter))
    /\ page_counter' = page_counter + 1
    /\ fetches' = [fetches EXCEPT ![ci] = @ + 1]
    /\ ei' = ei + 1
    /\ pc' = AfterEntry
    /\ UNCHANGED <<cfgVars, tmp_dir, params_file, tmp_files, markers,
                   resume_mode, ci, text_blocks, chapter_content,
                   chapter_content_size, current_book_content,
                   current_book_chapters,
                   current_epub_markers, current_book_size,
                   original_cover_path, parts, run_no, startup, seen,
                   packaged, prev>>
    /\ UNCHANGED <<composeVars, fetchVars, auxVars>>

\* dl_image returns the path of a file whose bytes are not an image
EntryUrlJunk ==
    /\ pc = "entries"
    /\ media[ci][ei] = "junk"
    /\ ch_dir' = [ch_dir EXCEPT ![ci] = TRUE]
    /\ files' = [files EXCEPT ![ci] = @ \cup {File("junk_jpg", 0, page_counter)}]
    /\ raw_image_paths' = Append(raw_image_paths,
                                 File("junk_jpg", 0, page_counter))
    /\ page_counter' = page_counter + 1
    /\ fetches' = [fetches EXCEPT ![ci] = @ + 1]
    /\ ei' = ei + 1
    /\ pc' = AfterEntry
    /\ UNCHANGED <<cfgVars, tmp_dir, params_file, tmp_files, markers,
                   resume_mode, ci, text_blocks, chapter_content,
                   chapter_content_size, current_book_content,
                   current_book_chapters,
                   current_epub_markers, current_book_size,
                   original_cover_path, parts, run_no, startup, seen,
                   packaged, prev>>
    /\ UNCHANGED <<composeVars, fetchVars, auxVars>>

\* dl_image returns None after creating the folder: the image is missing
EntryUrlMissing ==
    /\ pc = "entries"
    /\ media[ci][ei] = "dead"
    /\ ch_dir' = [ch_dir EXCEPT ![ci] = TRUE]
    /\ fetches' = [fetches EXCEPT ![ci] = @ + 1]
    /\ ei' = ei + 1
    /\ pc' = AfterEntry
    /\ UNCHANGED <<cfgVars, tmp_dir, params_file, tmp_files, files, markers,
                   resume_mode, ci, raw_image_paths, text_blocks,
                   page_counter, chapter_content, chapter_content_size,
                   current_book_content, current_book_chapters,
                   current_epub_markers,
                   current_book_size, original_cover_path, parts, run_no,
                   startup, seen, packaged, prev>>
    /\ UNCHANGED <<composeVars, fetchVars, auxVars>>

\* "if not raw_image_paths and not text_blocks:"
NoMedia_Never(raw, blocks) == FALSE

NoMedia(raw, blocks) == raw = <<>> /\ blocks = 0

\* lines 1829-1833: nothing was downloaded, the chapter is skipped
SkipChapter ==
    /\ pc = "downloaded"
    /\ NoMedia(raw_image_paths, text_blocks)
    /\ ci' = ci + 1
    /\ pc' = "chapter"
    /\ UNCHANGED <<cfgVars, diskVars, resume_mode, ei, raw_image_paths,
                   text_blocks, page_counter, chapter_content,
                   chapter_content_size, current_book_content,
                   current_book_chapters,
                   current_epub_markers, current_book_size,
                   original_cover_path, parts, histVars>>
    /\ UNCHANGED <<composeVars, fetchVars, auxVars>>

\* lines 1860-2006: compose, scale and save the pages, render the text
ProcessChapter ==
    /\ pc = "downloaded"
    /\ ~NoMedia(raw_image_paths, text_blocks)
    /\ ~PdfSheetsRaise(raw_image_paths, fmt, no_processing)
    /\ ch_dir' = [ch_dir EXCEPT ![ci] = TRUE]
    /\ files' = [files EXCEPT ![ci] = @ \cup
                    ChapterFilesWritten(ci, raw_image_paths, fmt,
                                        text_blocks, no_processing)]
    /\ tmp_files' = tmp_files \cup
                    MergedPdfWritten(ci, raw_image_paths, fmt, text_blocks,
                                     no_processing)
    /\ chapter_content' = ChapterContent(ci, raw_image_paths, fmt,
                                         text_blocks, no_processing)
    /\ pc' = "marker"
    /\ UNCHANGED <<cfgVars, tmp_dir, params_file, markers, resume_mode, ci,
                   ei, raw_image_paths, text_blocks, page_counter,
                   chapter_content_size, current_book_content,
                   current_book_chapters,
                   current_epub_markers, current_book_size,
                   original_cover_path, parts, histVars>>
    /\ UNCHANGED <<composeVars, fetchVars, auxVars>>

\* the exception of lines 1950-1953 is caught nowhere: the program ends
\* with a traceback, after os.makedirs(processed_tdir)
ProcessChapterRaises ==
    /\ pc = "downloaded"
    /\ ~NoMedia(raw_image_paths, text_blocks)
    /\ PdfSheetsRaise(raw_image_paths, fmt, no_processing)
    /\ ch_dir' = [ch_dir EXCEPT ![ci] = TRUE]
    /\ pc' = "aborted"
    /\ MemReset
    /\ UNCHANGED <<cfgVars, tmp_dir, params_file, tmp_files, files, markers,
                   parts, histVars>>
    /\ UNCHANGED <<composeVars, fetchVars, auxVars>>

\* lines 2008-2020: the marker is written, the content is measured; a
\* chapter without content is left out of the book
WriteMarker ==
    /\ pc = "marker"
    /\ markers' = IF ShouldWriteMarker(chapter_content)
                  THEN [markers EXCEPT ![ci] =
                            @ \cup {[name |-> marker_name, run |-> run_no]}]
                  ELSE markers
    /\ chapter_content_size' =
           Cardinality({k \in 1..Len(chapter_content) :
                            OnDisk(chapter_content[k].file, ci)}) * FileSize
    /\ IF chapter_content = <<>>
       THEN /\ ci' = ci + 1
            /\ pc' = "chapter"
       ELSE /\ ci' = ci
            /\ pc' = "book"
    /\ UNCHANGED <<cfgVars, tmp_dir, params_file, tmp_files, ch_dir, files,
                   resume_mode, ei, raw_image_paths, text_blocks,
                   page_counter, chapter_content, current_book_content,
                   current_book_chapters,
                   current_epub_markers, current_book_size,
                   original_cover_path, parts, histVars>>
    /\ UNCHANGED <<composeVars, fetchVars, auxVars>>

\* _epub_page_count: the entries that become a page document
_epub_page_count(entries) ==
    Cardinality({k \in DOMAIN entries :
                     entries[k].type \in {"image", "xhtml"}})

\* "start_page_index = _epub_page_count(current_book_content)", taken
\* before the chapter is appended
start_page_index_AfterChapter(book, chapter) ==
    _epub_page_count(book \o chapter)

start_page_index(book, chapter) == _epub_page_count(book)

\* build_epub: the page documents, one per image or xhtml item, in order
page_docs(items) == SelectItems(items, {"image", "xhtml"})

\* build_epub, lines 1025-1030: the entries of nav.xhtml
nav_entries(items, chapter_markers) ==
    LET shown == SelectSeq(chapter_markers,
                           LAMBDA mk : mk.page_index < Len(page_docs(items)))
    IN  [k \in 1..Len(shown) |->
            [ch |-> shown[k].ch,
             target |-> page_docs(items)[shown[k].page_index + 1]]]

split_now ==
    \/ should_split_by_size(current_book_content, current_book_size,
                            chapter_content_size, split_size_bytes)
    \/ should_split_by_chapters(current_book_chapters, split_chapter_count)

RemoveFiles(gone) ==
    /\ files' = [c \in Chapters |-> files[c] \ gone]
    /\ tmp_files' = tmp_files \ gone

\* lines 2061-2098: flush the book part if a limit is crossed, then add the
\* chapter to the current part
AddToBook ==
    /\ pc = "book"
    /\ ~(split_now /\ BuildPartRaises(current_book_content,
                                      current_book_chapters))
    /\ IF split_now
       THEN /\ parts' = build_book_part(parts, current_book_content,
                                        current_book_chapters, fmt)
            /\ RemoveFiles(PdfInputsRemoved(current_book_content, fmt))
            /\ current_book_content' = chapter_content
            /\ current_book_chapters' = <<ci>>
            /\ current_book_size' = chapter_content_size
       ELSE /\ UNCHANGED <<parts, files, tmp_files>>
            /\ current_book_content' = current_book_content \o chapter_content
            /\ current_book_chapters' = Append(current_book_chapters, ci)
            /\ current_book_size' = current_book_size + chapter_content_size
    /\ current_epub_markers' =
           LET book == IF split_now THEN <<>> ELSE current_book_content
               kept == IF split_now THEN <<>> ELSE current_epub_markers
           IN  IF fmt = "epub" /\ _epub_page_count(chapter_content) > 0
               THEN Append(kept, [ch |-> ci,
                                  page_index |->
                                      start_page_index(book, chapter_content)])
               ELSE kept
    /\ packaged' = [packaged EXCEPT ![ci] = Names(chapter_content)]
    /\ ci' = ci + 1
    /\ pc' = "chapter"
    /\ UNCHANGED <<cfgVars, tmp_dir, params_file, ch_dir, markers,
                   resume_mode, ei, raw_image_paths, text_blocks,
                   page_counter, chapter_content, chapter_content_size,
                   original_cover_path, run_no, startup, seen, fetches, prev>>
    /\ UNCHANGED <<composeVars, fetchVars, auxVars>>

\* build_book_part raises IndexError on book_chapters[0] when a size limit
\* is crossed while the book holds the cover only
AddToBookRaises ==
    /\ pc = "book"
    /\ split_now
    /\ BuildPartRaises(current_book_content, current_book_chapters)
    /\ pc' = "aborted"
    /\ MemReset
    /\ UNCHANGED <<cfgVars, diskVars, parts, histVars>>
    /\ UNCHANGED <<composeVars, fetchVars, auxVars>>

splitting == split_size_bytes > 0 \/ split_chapter_count > 0

\* lines 2100-2164: the last part, or the single archive, is built
FinalBuild ==
    /\ pc = "chapter"
    /\ ci > num_chapters
    /\ ~(splitting /\ fmt # "none"
         /\ BuildPartRaises(current_book_content, current_book_chapters))
    /\ IF current_book_content = <<>> \/ fmt = "none"
       THEN UNCHANGED <<parts, files, tmp_files>>
       ELSE /\ parts' =
                 IF splitting
                 THEN build_book_part(parts, current_book_content,
                                      current_book_chapters, fmt)
                 ELSE IF PartWritten(current_book_content, fmt)
                 THEN Append(parts,
                             Part(ArchiveInputs(current_book_content, fmt),
                                  current_book_chapters, FALSE))
                 ELSE parts
            /\ RemoveFiles(PdfInputsRemoved(current_book_content, fmt))
    /\ pc' = "cleanup"
    /\ UNCHANGED <<cfgVars, tmp_dir, params_file, ch_dir, markers,
                   resume_mode, ci, ei, raw_image_paths, text_blocks,
                   page_counter, chapter_content, chapter_content_size,
                   current_book_content, current_book_chapters,
                   current_epub_markers,
                   current_book_size, original_cover_path, histVars>>
    /\ UNCHANGED <<composeVars, fetchVars, auxVars>>

\* build_book_part raises IndexError on book_chapters[0]: the book holds the
\* cover only
FinalBuildRaises ==
    /\ pc = "chapter"
    /\ ci > num_chapters
    /\ splitting
    /\ fmt # "none"
    /\ BuildPartRaises(current_book_content, current_book_chapters)
    /\ pc' = "aborted"
    /\ MemReset
    /\ UNCHANGED <<cfgVars, diskVars, parts, histVars>>
    /\ UNCHANGED <<composeVars, fetchVars, auxVars>>

\* lines 2166-2170: the temp directory is removed unless --no-cleanup
Cleanup ==
    /\ pc = "cleanup"
    /\ \E no_cleanup \in BOOLEAN :
         IF no_cleanup THEN UNCHANGED diskVars ELSE RemoveTmpDir
    /\ pc' = "done"
    /\ UNCHANGED <<cfgVars, resume_mode, ci, ei, raw_image_paths,
                   text_blocks, page_counter, chapter_content,
                   chapter_content_size, current_book_content,
                   current_book_chapters,
                   current_epub_markers, current_book_size,
                   original_cover_path, parts, histVars>>
    /\ UNCHANGED <<composeVars, fetchVars, auxVars>>

Running == pc \notin {"idle", "done", "terminated", "aborted", "exited"}

\* the process is killed: its memory is lost, the temp directory stays
Terminate ==
    /\ Running
    /\ pc' = "terminated"
    /\ MemReset
    /\ HistReset
    /\ parts' = <<>>
    /\ UNCHANGED <<cfgVars, diskVars, run_no, prev>>
    /\ UNCHANGED <<composeVars, fetchVars, auxVars>>

\* the program is started again on the same series, with the same command
\* line, with other options, with another format, or with
\* --restore-parameters
Rerun ==
    /\ pc \in {"done", "terminated", "aborted", "exited"}
    /\ run_no < MaxRuns
    /\ \E f \in Formats, o \in Opts, r \in BOOLEAN :
         /\ f = fmt \/ o = opts
         /\ r => o = opts
         /\ fmt' = f
         /\ opts' = o
         /\ restore_parameters' = r
         /\ pc' = IF r THEN "restore" ELSE "check"
    /\ MemReset
    /\ HistReset
    /\ parts' = <<>>
    /\ run_no' = run_no + 1
    /\ prev' = Ended(IF pc # "done" THEN pc
                     ELSE IF tmp_dir THEN "kept" ELSE "cleaned")
    /\ UNCHANGED <<no_processing, split_chapter_count, split_size_bytes,
                   num_chapters, media, cover_url, language, diskVars>>
    /\ UNCHANGED <<composeVars, fetchVars, auxVars>>

\* the program is started again on the same series with the same command
\* line except for --language
RerunOtherLanguage ==
    /\ pc \in {"done", "terminated", "aborted", "exited"}
    /\ run_no < MaxRuns
    /\ \E l \in Languages \ {language} : language' = l
    /\ restore_parameters' = FALSE
    /\ pc' = "check"
    /\ MemReset
    /\ HistReset
    /\ parts' = <<>>
    /\ run_no' = run_no + 1
    /\ prev' = Ended(IF pc # "done" THEN pc
                     ELSE IF tmp_dir THEN "kept" ELSE "cleaned")
    /\ UNCHANGED <<fmt, no_processing, opts, split_chapter_count,
                   split_size_bytes, num_chapters, media, cover_url,
                   diskVars>>
    /\ UNCHANGED <<composeVars, fetchVars, auxVars>>

ChapterSteps ==
    \/ CheckTempDir
    \/ MakeTmpDir
    \/ OpenParamsFile
    \/ DumpParams
    \/ FetchCover
    \/ StartChapter
    \/ EntryText
    \/ EntryUrl
    \/ EntryUrlMissing
    \/ SkipChapter
    \/ ProcessChapter
    \/ WriteMarker
    \/ AddToBook
    \/ FinalBuild
    \/ Cleanup

RunNext ==
    \/ ChapterSteps
    \/ RestoreParameters
    \/ RestoreFails
    \/ ReuseChapter
    \/ EntryBinary
    \/ EntryBinaryRaises
    \/ Terminate
    \/ Rerun

SplitNext ==
    \/ ChapterSteps
    \/ AddToBookRaises
    \/ FinalBuildRaises

(***************************************************************************)
(* Chapter selection: main() lines 1590-1647 and                           *)
(* BaseSiteHandler.select_best_chapter_version                             *)
(*                                                                         *)
(* A chap value is the sequence of its characters.  float() of it is kept  *)
(* in tenths (the inputs have at most one fractional digit), so "1" and    *)
(* "1.0" are different strings with the same number.  A version returned   *)
(* by select_best_chapter_version is identified by its index in the list   *)
(* it was chosen from; 0 stands for None.                                  *)
(***************************************************************************)
None == "<None>"

DigitChars == {"0", "1", "2", "3", "4", "5", "6", "7", "8", "9"}

DigitValue(c) ==
    CASE c = "0" -> 0 [] c = "1" -> 1 [] c = "2" -> 2 [] c = "3" -> 3
      [] c = "4" -> 4 [] c = "5" -> 5 [] c = "6" -> 6 [] c = "7" -> 7
      [] c = "8" -> 8 [] c = "9" -> 9

RECURSIVE DecimalValue(_)
DecimalValue(ds) ==
    IF ds = <<>> THEN 0
    ELSE DecimalValue(SubSeq(ds, 1, Len(ds) - 1)) * 10 + DigitValue(Last(ds))

DotAt(s) == {k \in 1..Len(s) : s[k] = "."}

\* the characters before and after the decimal point
WholeDigits(s) ==
    IF DotAt(s) = {} THEN s ELSE SubSeq(s, 1, (CHOOSE k \in DotAt(s) : TRUE) - 1)

FracDigits(s) ==
    IF DotAt(s) = {} THEN <<>>
    ELSE SubSeq(s, (CHOOSE k \in DotAt(s) : TRUE) + 1, Len(s))

\* does float(s) return (no ValueError): digits with at most one point
FloatParses(s) ==
    /\ \A k \in 1..Len(s) : s[k] \in DigitChars \cup {"."}
    /\ Cardinality(DotAt(s)) <= 1
    /\ \E k \in 1..Len(s) : s[k] \in DigitChars

\* float(s), in tenths
float(s) ==
    DecimalValue(WholeDigits(s)) * 10
        + (IF FracDigits(s) = <<>> THEN 0 ELSE DigitValue(FracDigits(s)[1]))

\* int(x) of a non-negative float, in tenths
int(x) == (x \div 10) * 10

\* the chap strings of the adapters' chapter lists
ChapStrings ==
    {<<"1">>, <<"1", ".", "0">>, <<"1", ".", "5">>, <<"2">>, <<"x">>}

GroupNames == {"a", "b"}

Version(hid, chap, group_name, up_count) ==
    [hid |-> hid, chap |-> chap, group_name |-> group_name,
     up_count |-> up_count]

upvotes(v) == v.up_count

get_group_name(v) == v.group_name

\* max(vs, key=upvotes) returns the first element with the greatest key;
\* idx is the non-empty set of candidate indexes
max(vs, idx) ==
    CHOOSE i \in idx :
        /\ \A j \in idx : upvotes(vs[j]) <= upvotes(vs[i])
        /\ \A j \in idx : j < i => upvotes(vs[j]) < upvotes(vs[i])

\* [v for v in versions if get_group_name(v) in preferred_groups]
preferred_All(vs, groups) == DOMAIN vs

preferred(vs, groups) ==
    {i \in DOMAIN vs : \E g \in DOMAIN groups : get_group_name(vs[i]) = groups[g]}

\* [v for v in versions if get_group_name(v) == group_name]
candidates(vs, group_name) ==
    {i \in DOMAIN vs : get_group_name(vs[i]) = group_name}

\* the position in preferred_groups of the group the for loop returns from,
\* 0 if it runs to its end
priority_group_Last(vs, groups) ==
    IF \E g \in DOMAIN groups : candidates(vs, groups[g]) # {}
    THEN CHOOSE g \in DOMAIN groups :
             /\ candidates(vs, groups[g]) # {}
             /\ \A h \in DOMAIN groups :
                    h > g => candidates(vs, groups[h]) = {}
    ELSE 0

priority_group(vs, groups) ==
    IF \E g \in DOMAIN groups : candidates(vs, groups[g]) # {}
    THEN CHOOSE g \in DOMAIN groups :
             /\ candidates(vs, groups[g]) # {}
             /\ \A h \in DOMAIN groups :
                    h < g => candidates(vs, groups[h]) = {}
    ELSE 0

select_best_chapter_version(vs, groups, mix) ==
    IF vs = <<>> THEN 0
    ELSE IF groups = <<>> THEN max(vs, DOMAIN vs)
    ELSE IF mix
    THEN IF preferred(vs, groups) # {}
         THEN max(vs, preferred(vs, groups))
         ELSE max(vs, DOMAIN vs)
    ELSE IF priority_group(vs, groups) # 0
         THEN max(vs, candidates(vs, groups[priority_group(vs, groups)]))
         ELSE max(vs, DOMAIN vs)

\* ---- lines 1594-1607: chapters_by_num, a dict in insertion order ----
\* the dict keys are the chap strings themselves
SameKey(a, b) == a = b

KeyIndexLike(by_num, num_str) ==
    {k \in DOMAIN by_num : SameKey(by_num[k].num_str, num_str)}

AddVersion(by_num, ch) ==
    IF ~FloatParses(ch.chap) THEN by_num
    ELSE IF KeyIndexLike(by_num, ch.chap) = {}
    THEN Append(by_num, [num_str |-> ch.chap, versions |-> <<ch>>])
    ELSE LET k == CHOOSE k \in KeyIndexLike(by_num, ch.chap) : TRUE IN
         [by_num EXCEPT ![k].versions = Append(@, ch)]

RECURSIVE GroupByNum(_)
GroupByNum(p) ==
    IF p = <<>> THEN <<>>
    ELSE AddVersion(GroupByNum(SubSeq(p, 1, Len(p) - 1)), Last(p))

\* ---- lines 1609-1618: sorted(keys, key=float), a stable sort ----
RECURSIVE InsertByFloat(_, _)
InsertByFloat(sorted, e) ==
    IF sorted = <<>> THEN <<e>>
    ELSE IF float(Last(sorted).num_str) <= float(e.num_str)
    THEN Append(sorted, e)
    ELSE Append(InsertByFloat(SubSeq(sorted, 1, Len(sorted) - 1), e),
                Last(sorted))

RECURSIVE SortedByFloat(_)
SortedByFloat(by_num) ==
    IF by_num = <<>> THEN <<>>
    ELSE InsertByFloat(SortedByFloat(SubSeq(by_num, 1, Len(by_num) - 1)),
                       Last(by_num))

BestOf(e, groups, mix) ==
    e.versions[select_best_chapter_version(e.versions, groups, mix)]

BestChapters(by_num, groups, mix) ==
    LET s == SortedByFloat(by_num) IN
    [k \in DOMAIN s |-> BestOf(s[k], groups, mix)]

\* ---- lines 1620-1631: --no-partials ----
IsWhole_Always(c) == TRUE

IsWhole(c) == float(c.chap) = int(float(c.chap))

NoPartials(chs) == SelectSeq(chs, IsWhole)

\* ---- the steps of the selection ----
\* the pools of the model: versions of up to MaxPool entries
PoolVersions == {Version(0, c, None, u) : c \in ChapStrings, u \in 0..MaxUp}

WithHids(p) == [k \in DOMAIN p |-> [p[k] EXCEPT !.hid = k]]

SelectIdle ==
    /\ pool = <<>>
    /\ preferred_groups = <<>>
    /\ mix_by_upvote = FALSE
    /\ no_partials = FALSE
    /\ chapters_by_num = <<>>
    /\ best_chapters = <<>>
    /\ selected_chapters = <<>>
    /\ spc = "idle"

BestIdle ==
    /\ versions = <<>>
    /\ best = 0
    /\ bpc = "idle"

SelectInit ==
    /\ pool \in {WithHids(p) : p \in SeqsUpTo(PoolVersions, MaxPool)}
    /\ preferred_groups = <<>>
    /\ mix_by_upvote = FALSE
    /\ no_partials \in BOOLEAN
    /\ chapters_by_num = <<>>
    /\ best_chapters = <<>>
    /\ selected_chapters = <<>>
    /\ spc = "group"

GroupPool ==
    /\ spc = "group"
    /\ chapters_by_num' = GroupByNum(pool)
    /\ spc' = "best"
    /\ UNCHANGED <<pool, preferred_groups, mix_by_upvote, no_partials,
                   best_chapters, selected_chapters, bestVars>>
    /\ UNCHANGED <<composeVars, fetchVars, runVars, archiveVars, layoutVars>>

SelectBest ==
    /\ spc = "best"
    /\ best_chapters' =
           BestChapters(chapters_by_num, preferred_groups, mix_by_upvote)
    /\ spc' = "filter"
    /\ UNCHANGED <<pool, preferred_groups, mix_by_upvote, no_partials,
                   chapters_by_num, selected_chapters, bestVars>>
    /\ UNCHANGED <<composeVars, fetchVars, runVars, archiveVars, layoutVars>>

\* --chapters is "all"; an empty selection ends the program (sys.exit)
ApplyFilters ==
    /\ spc = "filter"
    /\ selected_chapters' = IF no_partials THEN NoPartials(best_chapters)
                   ELSE best_chapters
    /\ spc' = IF selected_chapters' = <<>> THEN "exited" ELSE "selected"
    /\ UNCHANGED <<pool, preferred_groups, mix_by_upvote, no_partials,
                   chapters_by_num, best_chapters, bestVars>>
    /\ UNCHANGED <<composeVars, fetchVars, runVars, archiveVars, layoutVars>>

SelectNext ==
    \/ GroupPool
    \/ SelectBest
    \/ ApplyFilters

\* ---- select_best_chapter_version on the versions of one chapter number ----
VersionLists ==
    {WithHids(p) :
        p \in SeqsUpTo({Version(0, <<"1">>, g, u) :
                            g \in GroupNames \cup {None}, u \in 0..MaxUp},
                       MaxVersions)}

GroupLists ==
    {<<>>} \cup {<<g>> : g \in GroupNames}
           \cup {<<g, h>> : g \in GroupNames, h \in GroupNames}

BestInit ==
    /\ versions \in VersionLists
    /\ preferred_groups \in GroupLists
    /\ mix_by_upvote \in BOOLEAN
    /\ best = 0
    /\ bpc = "call"
    /\ pool = <<>>
    /\ no_partials = FALSE
    /\ chapters_by_num = <<>>
    /\ best_chapters = <<>>
    /\ selected_chapters = <<>>
    /\ spc = "idle"

CallSelectBest ==
    /\ bpc = "call"
    /\ best' = select_best_chapter_version(versions, preferred_groups,
                                           mix_by_upvote)
    /\ bpc' = "returned"
    /\ UNCHANGED <<versions, pool, preferred_groups, mix_by_upvote,
                   no_partials, chapters_by_num, best_chapters,
                   selected_chapters, spc>>
    /\ UNCHANGED <<composeVars, fetchVars, runVars, archiveVars, layoutVars>>

\* the site reports another upvote count for one version, and the selection
\* is made again
ChangeUpvotes ==
    /\ bpc \in {"returned", "reselected"}
    /\ \E i \in DOMAIN versions, u \in 0..MaxUp :
         /\ u # versions[i].up_count
         /\ versions' = [versions EXCEPT ![i].up_count = u]
    /\ best' = select_best_chapter_version(versions', preferred_groups,
                                           mix_by_upvote)
    /\ bpc' = "reselected"
    /\ UNCHANGED <<pool, preferred_groups, mix_by_upvote, no_partials,
                   chapters_by_num, best_chapters, selected_chapters, spc>>
    /\ UNCHANGED <<composeVars, fetchVars, runVars, archiveVars, layoutVars>>

BestNext ==
    \/ CallSelectBest
    \/ ChangeUpvotes

(***************************************************************************)
(* Archive builders: build_cbz, build_epub (its spine) and merge_pdf_files *)
(*                                                                         *)
(* An input is identified by its position in the list given to the         *)
(* builder; a page of a PDF input is the pair <<input, page>>.  shutil,    *)
(* zipfile and pypdf raise on a path that does not exist.                  *)
(***************************************************************************)
ArcItem(type, ext, pages, exists) ==
    [type |-> type, ext |-> ext, pages |-> pages, exists |-> exists]

DigitChar(d) == CHOOSE c \in DigitChars : DigitValue(c) = d

RECURSIVE DecimalDigits(_)
DecimalDigits(i) ==
    IF i < 10 THEN <<DigitChar(i)>>
    ELSE Append(DecimalDigits(i \div 10), DigitChar(i % 10))

\* f"{i:04d}"
pad_width == 4

RECURSIVE ZeroPad(_, _)
ZeroPad(ds, w) == IF Len(ds) >= w THEN ds ELSE ZeroPad(<<"0">> \o ds, w)

format_04d(i) == ZeroPad(DecimalDigits(i), pad_width)

arcname(i, image) == [stem |-> format_04d(i), ext |-> image.ext]

\* the PageCount element of ComicInfo.xml
build_comic_info_xml_CountsItself(page_count) == [PageCount |-> page_count + 1]

build_comic_info_xml(page_count) == [PageCount |-> page_count]

\* the inputs before the first one that does not exist
RECURSIVE UntilMissing(_)
UntilMissing(items) ==
    IF items = <<>> \/ ~Head(items).exists THEN <<>>
    ELSE <<Head(items)>> \o UntilMissing(Tail(items))

NoneMissing(items) == \A k \in DOMAIN items : items[k].exists

\* zf.write(image_path, arcname) for i, image_path in enumerate(slices)
ZipEntries(slices) ==
    [k \in DOMAIN slices |->
        [name |-> arcname(k - 1, slices[k]), source |-> k]]

NoArchive == [written |-> FALSE, entries |-> <<>>, info |-> <<>>,
              spine |-> <<>>, pages |-> <<>>]

\* build_cbz returned: the entries, then ComicInfo.xml
build_cbz(slices) ==
    [NoArchive EXCEPT !.written = TRUE,
                      !.entries = ZipEntries(slices),
                      !.info = <<build_comic_info_xml(Len(slices))>>]

\* the spine of build_epub: the cover page, then one itemref per item, for
\* an image "page_<len(page_docs)>" and for a text "text_<text_counter>"
ItemRef(items, k) ==
    IF items[k].type = "image"
    THEN [idref |-> <<"page", k - 1>>, source |-> k]
    ELSE [idref |-> <<"text",
                      Cardinality({j \in 1..(k - 1) : items[j].type = "xhtml"})>>,
          source |-> k]

EpubSpine_ImagesFirst(items) ==
    LET refs == [k \in DOMAIN items |-> ItemRef(items, k)] IN
    SelectSeq(refs, LAMBDA r : r.idref[1] = "page")
        \o SelectSeq(refs, LAMBDA r : r.idref[1] = "text")

EpubSpine(items) == [k \in DOMAIN items |-> ItemRef(items, k)]

CoverRef == [idref |-> <<"cover", 0>>, source |-> 0]

build_epub(items, cover) ==
    [NoArchive EXCEPT !.written = TRUE,
                      !.spine = (IF cover THEN <<CoverRef>> ELSE <<>>)
                                    \o EpubSpine(items)]

\* writer.append(p) for p in input_paths; the fallbacks append in the same
\* order
merge_pdf_files(inputs) ==
    [NoArchive EXCEPT !.written = TRUE,
                      !.pages = Flatten([k \in DOMAIN inputs |->
                                    [p \in 1..inputs[k].pages |-> <<k, p>>]])]

\* ---- the inputs of the model ----
CbzSlices ==
    SeqsUpTo({ArcItem("image", e, 0, x) :
                  e \in {".jpg", ".png"}, x \in BOOLEAN}, MaxItems)

EpubItems ==
    SeqsUpTo({ArcItem(t, IF t = "image" THEN ".jpg" ELSE ".xhtml", 0, x) :
                  t \in {"image", "xhtml"}, x \in BOOLEAN}, MaxItems)

PdfInputs ==
    SeqsUpTo({ArcItem("pdf", ".pdf", n, x) :
                  n \in 1..MaxPdfPages, x \in BOOLEAN}, MaxItems) \ {<<>>}

ArchiveIdle ==
    /\ arc_fmt = "none"
    /\ arc_items = <<>>
    /\ arc_cover = FALSE
    /\ archive = NoArchive
    /\ apc = "idle"

ArchiveInit ==
    /\ arc_fmt \in {"cbz", "epub", "pdf"}
    /\ arc_items \in (CASE arc_fmt = "cbz" -> CbzSlices
                        [] arc_fmt = "epub" -> EpubItems
                        [] arc_fmt = "pdf" -> PdfInputs)
    /\ arc_cover \in (IF arc_fmt = "epub" THEN BOOLEAN ELSE {FALSE})
    /\ archive = NoArchive
    /\ apc = "build"

BuildCbz ==
    /\ apc = "build"
    /\ arc_fmt = "cbz"
    /\ NoneMissing(arc_items)
    /\ archive' = build_cbz(arc_items)
    /\ apc' = "built"
    /\ UNCHANGED <<arc_fmt, arc_items, arc_cover>>
    /\ UNCHANGED <<composeVars, fetchVars, runVars, selectVars, bestVars,
                   layoutVars>>

\* zf.write raises on the first missing image: the zip is closed with the
\* entries written so far and without ComicInfo.xml
BuildCbzRaises ==
    /\ apc = "build"
    /\ arc_fmt = "cbz"
    /\ ~NoneMissing(arc_items)
    /\ archive' = [NoArchive EXCEPT !.written = TRUE,
                       !.entries = ZipEntries(UntilMissing(arc_items))]
    /\ apc' = "raised"
    /\ UNCHANGED <<arc_fmt, arc_items, arc_cover>>
    /\ UNCHANGED <<composeVars, fetchVars, runVars, selectVars, bestVars,
                   layoutVars>>

BuildEpub ==
    /\ apc = "build"
    /\ arc_fmt = "epub"
    /\ NoneMissing(arc_items)
    /\ archive' = build_epub(arc_items, arc_cover)
    /\ apc' = "built"
    /\ UNCHANGED <<arc_fmt, arc_items, arc_cover>>
    /\ UNCHANGED <<composeVars, fetchVars, runVars, selectVars, bestVars,
                   layoutVars>>

\* shutil.copy raises before the zip file is opened
BuildEpubRaises ==
    /\ apc = "build"
    /\ arc_fmt = "epub"
    /\ ~NoneMissing(arc_items)
    /\ apc' = "raised"
    /\ UNCHANGED <<arc_fmt, arc_items, arc_cover, archive>>
    /\ UNCHANGED <<composeVars, fetchVars, runVars, selectVars, bestVars,
                   layoutVars>>

MergePdf ==
    /\ apc = "build"
    /\ arc_fmt = "pdf"
    /\ NoneMissing(arc_items)
    /\ archive' = merge_pdf_files(arc_items)
    /\ apc' = "built"
    /\ UNCHANGED <<arc_fmt, arc_items, arc_cover>>
    /\ UNCHANGED <<composeVars, fetchVars, runVars, selectVars, bestVars,
                   layoutVars>>

\* every strategy fails on the missing input, before out_path is opened
MergePdfRaises ==
    /\ apc = "build"
    /\ arc_fmt = "pdf"
    /\ ~NoneMissing(arc_items)
    /\ apc' = "raised"
    /\ UNCHANGED <<arc_fmt, arc_items, arc_cover, archive>>
    /\ UNCHANGED <<composeVars, fetchVars, runVars, selectVars, bestVars,
                   layoutVars>>

ArchiveNext ==
    \/ BuildCbz
    \/ BuildCbzRaises
    \/ BuildEpub
    \/ BuildEpubRaises
    \/ MergePdf
    \/ MergePdfRaises

(***************************************************************************)
(* recombine_scaled_images (lines 675-709).  A scaled page is its height   *)
(* in rows; a strip is the list of the pages pasted into it and the height *)
(* combine_images gave it.                                                 *)
(***************************************************************************)
MaxScaledPages == 4
MaxScaledHeight == 3
MaxRecombineHeight == 4

\* the pages img.resize returned: at least one row each
ScaledPages == SeqsUpTo(1..MaxScaledHeight, MaxScaledPages)

\* "if buffer_height + img.height > recombine_height and page_buffer:"
StripIsFull_AtLimit(buffer, buffer_h, img_h, limit) ==
    buffer_h + img_h >= limit /\ buffer # <<>>

StripIsFull(buffer, buffer_h, img_h, limit) ==
    buffer_h + img_h > limit /\ buffer # <<>>

\* sum(img.height for img in images) of the pages of a buffer
TotalHeight(buffer) == SeqSum([k \in DOMAIN buffer |-> scaled_images[buffer[k]]])

\* combined_strip = combine_images(page_buffer, strip_width);
\* "if combined_strip: final_strips.append(combined_strip)"
AppendStrip(strips, buffer) ==
    IF buffer = <<>> \/ TotalHeight(buffer) <= 0 THEN strips
    ELSE Append(strips, [pages |-> buffer, height |-> TotalHeight(buffer)])

RecombineIdle ==
    /\ scaled_images = <<>>
    /\ recombine_height = 0
    /\ scaled_i = 0
    /\ strip_buffer = <<>>
    /\ strip_buffer_height = 0
    /\ final_strips = <<>>
    /\ rpc = "idle"

\* the call of line 1901 is made with recombine_target_height > 0
RecombineInit ==
    /\ scaled_images \in ScaledPages
    /\ recombine_height \in 1..MaxRecombineHeight
    /\ scaled_i = 0
    /\ strip_buffer = <<>>
    /\ strip_buffer_height = 0
    /\ final_strips = <<>>
    /\ rpc = "start"

\* "if not scaled_images: return []"
RecombineNothing ==
    /\ rpc = "start"
    /\ scaled_images = <<>>
    /\ rpc' = "returned"
    /\ UNCHANGED <<scaled_images, recombine_height, scaled_i, strip_buffer,
                   strip_buffer_height, final_strips>>
    /\ UNCHANGED <<composeVars, fetchVars, runVars, selectVars, bestVars,
                   archiveVars, mergeVars, wrapVars, renderVars>>

RecombineEnter ==
    /\ rpc = "start"
    /\ scaled_images # <<>>
    /\ rpc' = "loop"
    /\ UNCHANGED <<scaled_images, recombine_height, scaled_i, strip_buffer,
                   strip_buffer_height, final_strips>>
    /\ UNCHANGED <<composeVars, fetchVars, runVars, selectVars, bestVars,
                   archiveVars, mergeVars, wrapVars, renderVars>>

\* for img in scaled_images: the buffer is full, the strip is closed and the
\* page starts the next buffer
CloseStrip ==
    /\ rpc = "loop"
    /\ scaled_i < Len(scaled_images)
    /\ StripIsFull(strip_buffer, strip_buffer_height,
                   scaled_images[scaled_i + 1], recombine_height)
    /\ final_strips' = AppendStrip(final_strips, strip_buffer)
    /\ strip_buffer' = <<scaled_i + 1>>
    /\ strip_buffer_height' = scaled_images[scaled_i + 1]
    /\ scaled_i' = scaled_i + 1
    /\ UNCHANGED <<scaled_images, recombine_height, rpc>>
    /\ UNCHANGED <<composeVars, fetchVars, runVars, selectVars, bestVars,
                   archiveVars, mergeVars, wrapVars, renderVars>>

\* for img in scaled_images: the page goes into the buffer
BufferPage ==
    /\ rpc = "loop"
    /\ scaled_i < Len(scaled_images)
    /\ ~StripIsFull(strip_buffer, strip_buffer_height,
                    scaled_images[scaled_i + 1], recombine_height)
    /\ strip_buffer' = Append(strip_buffer, scaled_i + 1)
    /\ strip_buffer_height' = strip_buffer_height + scaled_images[scaled_i + 1]
    /\ scaled_i' = scaled_i + 1
    /\ UNCHANGED <<scaled_images, recombine_height, final_strips, rpc>>
    /\ UNCHANGED <<composeVars, fetchVars, runVars, selectVars, bestVars,
                   archiveVars, mergeVars, wrapVars, renderVars>>

\* after the loop: "if page_buffer:" the last strip, and return
LastStrip ==
    /\ rpc = "loop"
    /\ scaled_i = Len(scaled_images)
    /\ final_strips' = AppendStrip(final_strips, strip_buffer)
    /\ rpc' = "returned"
    /\ UNCHANGED <<scaled_images, recombine_height, scaled_i, strip_buffer,
                   strip_buffer_height>>
    /\ UNCHANGED <<composeVars, fetchVars, runVars, selectVars, bestVars,
                   archiveVars, mergeVars, wrapVars, renderVars>>

RecombineNext ==
    \/ RecombineNothing
    \/ RecombineEnter
    \/ CloseStrip
    \/ BufferPage
    \/ LastStrip

(***************************************************************************)
(* merge_pdf_files (lines 1146-1194): which strategy runs, and when        *)
(***************************************************************************)
Strategies == {"append", "pages", "merger"}

\* the installed pypdf: whether PdfWriter has append, whether PdfMerger can
\* be imported
Libraries == [append : BOOLEAN, merger : BOOLEAN]

\* "if hasattr(writer, "append"):" chooses what the first try block runs
WriterStrategy_PagesFirst(lib) == "pages"

WriterStrategy(lib) == IF lib.append THEN "append" ELSE "pages"

MergeInputs ==
    SeqsUpTo({ArcItem("pdf", ".pdf", n, TRUE) : n \in 1..MaxPdfPages},
             MaxItems) \ {<<>>}

MergeIdle ==
    /\ pdf_inputs = <<>>
    /\ pypdf = [append |-> TRUE, merger |-> FALSE]
    /\ raising = {}
    /\ tried = <<>>
    /\ merged = NoArchive
    /\ mpc = "idle"

MergeInit ==
    /\ pdf_inputs \in MergeInputs
    /\ pypdf \in Libraries
    /\ raising \in SUBSET Strategies
    /\ tried = <<>>
    /\ merged = NoArchive
    /\ mpc = "writer"

\* first try block, no exception: the file is written, return
WriterMerges ==
    /\ mpc = "writer"
    /\ WriterStrategy(pypdf) \notin raising
    /\ tried' = Append(tried, WriterStrategy(pypdf))
    /\ merged' = merge_pdf_files(pdf_inputs)
    /\ mpc' = "returned"
    /\ UNCHANGED <<pdf_inputs, pypdf, raising>>
    /\ UNCHANGED <<composeVars, fetchVars, runVars, selectVars, bestVars,
                   archiveVars, recombineVars, wrapVars, renderVars>>

\* first try block, "except Exception: pass": on to the second try block
WriterFails ==
    /\ mpc = "writer"
    /\ WriterStrategy(pypdf) \in raising
    /\ tried' = Append(tried, WriterStrategy(pypdf))
    /\ mpc' = "merger"
    /\ UNCHANGED <<pdf_inputs, pypdf, raising, merged>>
    /\ UNCHANGED <<composeVars, fetchVars, runVars, selectVars, bestVars,
                   archiveVars, recombineVars, wrapVars, renderVars>>

\* second try block, no exception
MergerMerges ==
    /\ mpc = "merger"
    /\ pypdf.merger
    /\ "merger" \notin raising
    /\ tried' = Append(tried, "merger")
    /\ merged' = merge_pdf_files(pdf_inputs)
    /\ mpc' = "returned"
    /\ UNCHANGED <<pdf_inputs, pypdf, raising>>
    /\ UNCHANGED <<composeVars, fetchVars, runVars, selectVars, bestVars,
                   archiveVars, recombineVars, wrapVars, renderVars>>

\* second try block: the import fails or the merger raises; RuntimeError
MergerFails ==
    /\ mpc = "merger"
    /\ ~pypdf.merger \/ "merger" \in raising
    /\ tried' = IF pypdf.merger THEN Append(tried, "merger") ELSE tried
    /\ mpc' = "raised"
    /\ UNCHANGED <<pdf_inputs, pypdf, raising, merged>>
    /\ UNCHANGED <<composeVars, fetchVars, runVars, selectVars, bestVars,
                   archiveVars, recombineVars, wrapVars, renderVars>>

MergeNext ==
    \/ WriterMerges
    \/ WriterFails
    \/ MergerMerges
    \/ MergerFails

(***************************************************************************)
(* _wrap_text_line and _split_long_word (lines 518-565).  A word is the    *)
(* list of its characters, character i of word w being <<w, i>>; a line is *)
(* a list of characters and spaces.  _measure_text is that of a font whose *)
(* characters, the space included, are all one unit wide.                  *)
(***************************************************************************)
MaxWords == 3
MaxWordLength == 4
MaxLineWidth == 3

Space == <<0, 0>>

Word(w, n) == [i \in 1..n |-> <<w, i>>]

\* text.split() of the texts the model ranges over
WordLists ==
    {[w \in 1..Len(ls) |-> Word(w, ls[w])] :
         ls \in SeqsUpTo(1..MaxWordLength, MaxWords)}

_measure_text(text) == Len(text)

\* f"{current} {word}".strip()
Candidate(current, word) ==
    IF current = <<>> THEN word ELSE current \o <<Space>> \o word

\* _split_long_word: "for ch in word:" from character k on
RECURSIVE SplitFrom(_, _, _, _, _)
SplitFrom(word, k, buffer, segments, limit) ==
    IF k > Len(word)
    THEN (IF buffer # <<>> THEN Append(segments, buffer) ELSE segments)
    ELSE LET trial == Append(buffer, word[k]) IN
         IF buffer = <<>> \/ _measure_text(trial) <= limit
         THEN SplitFrom(word, k + 1, trial, segments, limit)
         ELSE SplitFrom(word, k + 1, <<word[k]>>, Append(segments, buffer),
                        limit)

_split_long_word(word, limit) ==
    LET segments == SplitFrom(word, 1, <<>>, <<>>, limit) IN
    IF segments # <<>> THEN segments ELSE <<word>>

\* "for segment in _split_long_word(...)": a fitting segment becomes the
\* current line when there is none, any other segment is appended and the
\* current line is set to ""
PlaceSegment(segment, current, out, limit) ==
    IF _measure_text(segment) <= limit /\ current = <<>>
    THEN [current |-> segment, lines |-> out]
    ELSE [current |-> <<>>, lines |-> Append(out, segment)]

RECURSIVE PlaceSegments(_, _, _, _, _)
PlaceSegments(segments, k, current, out, limit) ==
    IF k > Len(segments) THEN [current |-> current, lines |-> out]
    ELSE LET placed == PlaceSegment(segments[k], current, out, limit) IN
         PlaceSegments(segments, k + 1, placed.current, placed.lines, limit)

\* "for word in words:" from word k on, then "if current: lines.append"
RECURSIVE WrapFrom(_, _, _, _, _)
WrapFrom(ws, k, current, out, limit) ==
    IF k > Len(ws)
    THEN (IF current # <<>> THEN Append(out, current) ELSE out)
    ELSE LET candidate == Candidate(current, ws[k]) IN
         IF _measure_text(candidate) <= limit
         THEN WrapFrom(ws, k + 1, candidate, out, limit)
         ELSE LET flushed == IF current # <<>> THEN Append(out, current)
                             ELSE out
                  placed == PlaceSegments(_split_long_word(ws[k], limit), 1,
                                          <<>>, flushed, limit)
              IN  WrapFrom(ws, k + 1, placed.current, placed.lines, limit)

_wrap_text_line(ws, limit) ==
    IF ws = <<>> THEN <<>> ELSE WrapFrom(ws, 1, <<>>, <<>>, limit)

WrapIdle ==
    /\ words = <<>>
    /\ max_width = 0
    /\ lines = <<>>
    /\ wpc = "idle"

WrapInit ==
    /\ words \in WordLists
    /\ max_width \in 1..MaxLineWidth
    /\ lines = <<>>
    /\ wpc = "call"

\* "if not words: return []"
WrapNothing ==
    /\ wpc = "call"
    /\ words = <<>>
    /\ lines' = <<>>
    /\ wpc' = "returned"
    /\ UNCHANGED <<words, max_width>>
    /\ UNCHANGED <<composeVars, fetchVars, runVars, selectVars, bestVars,
                   archiveVars, recombineVars, mergeVars, renderVars>>

WrapLine ==
    /\ wpc = "call"
    /\ words # <<>>
    /\ lines' = _wrap_text_line(words, max_width)
    /\ wpc' = "returned"
    /\ UNCHANGED <<words, max_width>>
    /\ UNCHANGED <<composeVars, fetchVars, runVars, selectVars, bestVars,
                   archiveVars, recombineVars, mergeVars, renderVars>>

WrapNext ==
    \/ WrapNothing
    \/ WrapLine

(***************************************************************************)
(* render_text_to_images (lines 220-302).  Heights are in pixels; the font *)
(* is one whose line height is the font size.                              *)
(***************************************************************************)
MaxParagraphs == 4
MaxParagraphLines == 2

font_size == 42
margin == 100
line_height == font_size
line_gap == IF (line_height * 35) \div 100 > 8
            THEN (line_height * 35) \div 100 ELSE 8

\* the values of the height argument: room for two lines, room for three
PageHeights == {2 * margin + 2 * line_height + line_gap + 2,
                2 * margin + 3 * line_height + 2 * line_gap + 2}

\* a canvas: the cursor, the number of the page, whether something was
\* drawn on it, and the pages saved
Canvas == [y |-> cursor_y, page_index |-> page_index,
           page_has_content |-> page_has_content,
           output_paths |-> output_paths]

\* commit_page: save the page and start a new one, unless nothing was drawn
commit_page(c) ==
    IF ~c.page_has_content THEN c
    ELSE [y |-> margin, page_index |-> c.page_index + 1,
          page_has_content |-> FALSE,
          output_paths |-> Append(c.output_paths, c.page_index)]

\* ensure_space(additional_height)
ensure_space(c, additional_height) ==
    IF c.y + additional_height > page_height - margin THEN commit_page(c)
    ELSE c

\* the canvas a step leaves
Becomes(c) ==
    /\ cursor_y' = c.y
    /\ page_index' = c.page_index
    /\ page_has_content' = c.page_has_content
    /\ output_paths' = c.output_paths

\* add_text_line: make room, draw at (margin, y), move the cursor down
add_text_line ==
    LET c == ensure_space(Canvas, line_height) IN
    /\ drawn' = Append(drawn, [page |-> c.page_index, y |-> c.y])
    /\ Becomes([c EXCEPT !.y = c.y + line_height + line_gap,
                         !.page_has_content = TRUE])

RenderIdle ==
    /\ title_lines = 0
    /\ paragraphs = <<>>
    /\ page_height = 0
    /\ start_index = 0
    /\ para_i = 0
    /\ line_i = 0
    /\ cursor_y = 0
    /\ page_index = 0
    /\ page_has_content = FALSE
    /\ output_paths = <<>>
    /\ drawn = <<>>
    /\ tpc = "idle"

RenderInit ==
    /\ title_lines \in 0..1
    /\ paragraphs \in SeqsUpTo(0..MaxParagraphLines, MaxParagraphs)
    /\ page_height \in PageHeights
    /\ start_index \in {1, 3}
    /\ para_i = 0
    /\ line_i = 0
    /\ cursor_y = margin
    /\ page_index = start_index
    /\ page_has_content = FALSE
    /\ output_paths = <<>>
    /\ drawn = <<>>
    /\ tpc = "call"

\* "if not paragraphs and not title: return []"
RenderNothing ==
    /\ tpc = "call"
    /\ paragraphs = <<>> /\ title_lines = 0
    /\ tpc' = "returned"
    /\ UNCHANGED <<title_lines, paragraphs, page_height, start_index, para_i,
                   line_i, cursor_y, page_index, page_has_content,
                   output_paths, drawn>>
    /\ UNCHANGED <<composeVars, fetchVars, runVars, selectVars, bestVars,
                   archiveVars, recombineVars, mergeVars, wrapVars>>

RenderEnter ==
    /\ tpc = "call"
    /\ paragraphs # <<>> \/ title_lines > 0
    /\ tpc' = "title"
    /\ UNCHANGED <<title_lines, paragraphs, page_height, start_index, para_i,
                   line_i, cursor_y, page_index, page_has_content,
                   output_paths, drawn>>
    /\ UNCHANGED <<composeVars, fetchVars, runVars, selectVars, bestVars,
                   archiveVars, recombineVars, mergeVars, wrapVars>>

\* "if title:" one line of the title
TitleLine ==
    /\ tpc = "title"
    /\ line_i < title_lines
    /\ add_text_line
    /\ line_i' = line_i + 1
    /\ UNCHANGED <<title_lines, paragraphs, page_height, start_index, para_i,
                   tpc>>
    /\ UNCHANGED <<composeVars, fetchVars, runVars, selectVars, bestVars,
                   archiveVars, recombineVars, mergeVars, wrapVars>>

\* after the title "y += line_gap"; without a title straight to the loop
TitleDone ==
    /\ tpc = "title"
    /\ line_i = title_lines
    /\ cursor_y' = IF title_lines > 0 THEN cursor_y + line_gap ELSE cursor_y
    /\ line_i' = 0
    /\ tpc' = "paragraphs"
    /\ UNCHANGED <<title_lines, paragraphs, page_height, start_index, para_i,
                   page_index, page_has_content, output_paths, drawn>>
    /\ UNCHANGED <<composeVars, fetchVars, runVars, selectVars, bestVars,
                   archiveVars, recombineVars, mergeVars, wrapVars>>

\* "if not paragraph: ensure_space(line_height); y += line_height"
BlankParagraph ==
    /\ tpc = "paragraphs"
    /\ para_i < Len(paragraphs)
    /\ paragraphs[para_i + 1] = 0
    /\ LET c == ensure_space(Canvas, line_height) IN
         Becomes([c EXCEPT !.y = c.y + line_height])
    /\ para_i' = para_i + 1
    /\ UNCHANGED <<title_lines, paragraphs, page_height, start_index, line_i,
                   drawn, tpc>>
    /\ UNCHANGED <<composeVars, fetchVars, runVars, selectVars, bestVars,
                   archiveVars, recombineVars, mergeVars, wrapVars>>

\* "for line in lines: add_text_line(line)"
TextLine ==
    /\ tpc = "paragraphs"
    /\ para_i < Len(paragraphs)
    /\ line_i < paragraphs[para_i + 1]
    /\ add_text_line
    /\ line_i' = line_i + 1
    /\ UNCHANGED <<title_lines, paragraphs, page_height, start_index, para_i,
                   tpc>>
    /\ UNCHANGED <<composeVars, fetchVars, runVars, selectVars, bestVars,
                   archiveVars, recombineVars, mergeVars, wrapVars>>

\* "y += line_gap  # Paragraph spacing"
ParagraphDone ==
    /\ tpc = "paragraphs"
    /\ para_i < Len(paragraphs)
    /\ paragraphs[para_i + 1] > 0
    /\ line_i = paragraphs[para_i + 1]
    /\ cursor_y' = cursor_y + line_gap
    /\ line_i' = 0
    /\ para_i' = para_i + 1
    /\ UNCHANGED <<title_lines, paragraphs, page_height, start_index,
                   page_index, page_has_content, output_paths, drawn, tpc>>
    /\ UNCHANGED <<composeVars, fetchVars, runVars, selectVars, bestVars,
                   archiveVars, recombineVars, mergeVars, wrapVars>>

\* "if page_has_content: commit_page()" and return output_paths
RenderReturn ==
    /\ tpc = "paragraphs"
    /\ para_i = Len(paragraphs)
    /\ Becomes(IF page_has_content THEN commit_page(Canvas) ELSE Canvas)
    /\ tpc' = "returned"
    /\ UNCHANGED <<title_lines, paragraphs, page_height, start_index, para_i,
                   line_i, drawn>>
    /\ UNCHANGED <<composeVars, fetchVars, runVars, selectVars, bestVars,
                   archiveVars, recombineVars, mergeVars, wrapVars>>

RenderNext ==
    \/ RenderNothing
    \/ RenderEnter
    \/ TitleLine
    \/ TitleDone
    \/ BlankParagraph
    \/ TextLine
    \/ ParagraphDone
    \/ RenderReturn

LayoutIdle == RecombineIdle /\ MergeIdle /\ WrapIdle /\ RenderIdle

AuxIdle == SelectIdle /\ BestIdle /\ ArchiveIdle /\ LayoutIdle

RecombineStart ==
    /\ RecombineInit
    /\ MergeIdle /\ WrapIdle /\ RenderIdle
    /\ SelectIdle /\ BestIdle /\ ArchiveIdle
    /\ ComposeIdle /\ FetchIdle /\ RunIdle

MergeStart ==
    /\ MergeInit
    /\ RecombineIdle /\ WrapIdle /\ RenderIdle
    /\ SelectIdle /\ BestIdle /\ ArchiveIdle
    /\ ComposeIdle /\ FetchIdle /\ RunIdle

WrapStart ==
    /\ WrapInit
    /\ RecombineIdle /\ MergeIdle /\ RenderIdle
    /\ SelectIdle /\ BestIdle /\ ArchiveIdle
    /\ ComposeIdle /\ FetchIdle /\ RunIdle

RenderStart ==
    /\ RenderInit
    /\ RecombineIdle /\ MergeIdle /\ WrapIdle
    /\ SelectIdle /\ BestIdle /\ ArchiveIdle
    /\ ComposeIdle /\ FetchIdle /\ RunIdle

ImagesNext ==
    \/ ChapterSteps
    \/ EntryUrlJunk
    \/ ProcessChapterRaises

LanguageNext ==
    \/ ChapterSteps
    \/ ReuseChapter
    \/ RerunOtherLanguage

ComposeStart == ComposeInit /\ FetchIdle /\ RunIdle /\ AuxIdle

FetchStart == FetchInit /\ ComposeIdle /\ RunIdle /\ AuxIdle

RunStart == RunInit /\ ComposeIdle /\ FetchIdle /\ AuxIdle

SplitStart == SplitInit /\ ComposeIdle /\ FetchIdle /\ AuxIdle

ImagesStart == ImagesInit /\ ComposeIdle /\ FetchIdle /\ AuxIdle

LanguageStart == LanguageInit /\ ComposeIdle /\ FetchIdle /\ AuxIdle

SelectStart ==
    SelectInit /\ BestIdle /\ ArchiveIdle /\ LayoutIdle /\ ComposeIdle /\ FetchIdle /\ RunIdle

BestStart == BestInit /\ ArchiveIdle /\ LayoutIdle /\ ComposeIdle /\ FetchIdle /\ RunIdle

ArchiveStart ==
    /\ ArchiveInit
    /\ SelectIdle /\ BestIdle /\ LayoutIdle
    /\ ComposeIdle /\ FetchIdle /\ RunIdle

SpecCompose == ComposeStart /\ [][ComposeNext]_vars

\* process_chapter_images is one synchronous call: the interpreter keeps
\* executing its loops, so a step that can change the state is taken
SpecComposeLive == SpecCompose /\ WF_vars(ComposeNext)

SpecFetch == FetchStart /\ [][FetchNext]_vars

SpecRun == RunStart /\ [][RunNext]_vars

SpecSplit == SplitStart /\ [][SplitNext]_vars

SpecImages == ImagesStart /\ [][ImagesNext]_vars

SpecLanguage == LanguageStart /\ [][LanguageNext]_vars

SpecSelect == SelectStart /\ [][SelectNext]_vars

SpecBest == BestStart /\ [][BestNext]_vars

SpecArchive == ArchiveStart /\ [][ArchiveNext]_vars

SpecRecombine == RecombineStart /\ [][RecombineNext]_vars

SpecMerge == MergeStart /\ [][MergeNext]_vars

SpecWrap == WrapStart /\ [][WrapNext]_vars

SpecRender == RenderStart /\ [][RenderNext]_vars

(***************************************************************************)
(* Properties                                                              *)
(***************************************************************************)

\* the rows the decodable inputs 1..n contribute, in input order
RECURSIVE InputRows(_)
InputRows(n) ==
    IF n = 0 THEN <<>>
    ELSE InputRows(n - 1) \o
         (IF Unreadable(input_paths[n], target_w) THEN <<>>
          ELSE [j \in 1..ResizedHeight(input_paths[n], target_w) |-> <<n, j>>])

\* C1: for target_height > 0 every page of process_chapter_images except
\* possibly the last is exactly target_height rows tall, and the last page
\* is between 1 and target_height rows tall.
C1_PageHeights ==
    target_h > 0 =>
        \A k \in 1..Len(final_pages) :
            /\ Len(final_pages[k]) \in 1..target_h
            /\ (k < Len(final_pages) \/ cpc # "returned")
                   => Len(final_pages[k]) = target_h

\* a run that sliced an image over pages and ended on a short last page
C1_Witness ==
    /\ cpc = "returned"
    /\ target_h > 0
    /\ Len(final_pages) >= 2
    /\ Len(Last(final_pages)) < target_h
    /\ \E i \in 1..Len(input_paths) :
           /\ ~Unreadable(input_paths[i], target_w)
           /\ ResizedHeight(input_paths[i], target_w) > target_h

\* C2: for target_height > 0 the rows of the pages, read page after page,
\* are exactly the rows of the decodable width-normalised inputs in input
\* order (nothing dropped, duplicated or reordered); while composing, the
\* finished pages, the buffer and the unconsumed rest of the current image
\* make up the rows of the inputs read so far.
C2_RowsPreserved ==
    target_h > 0 =>
        /\ cpc # "returned" =>
               Flatten(final_pages) \o Flatten(page_buffer) \o current_image
                   = InputRows(img_i)
        /\ cpc = "returned" =>
               /\ Flatten(final_pages) = InputRows(Len(input_paths))
               /\ SumLen(final_pages) = Len(InputRows(Len(input_paths)))

\* a finished run with a skipped file and a page stitched from two inputs
C2_Witness ==
    /\ cpc = "returned"
    /\ target_h > 0
    /\ \E i \in 1..Len(input_paths) : Unreadable(input_paths[i], target_w)
    /\ \E k \in 1..Len(final_pages) :
           \E a, b \in 1..Len(final_pages[k]) :
               final_pages[k][a][1] # final_pages[k][b][1]
    /\ \E k \in 1..(Len(final_pages) - 1) :
           Last(final_pages[k])[1] = Head(final_pages[k + 1])[1]

\* C3: when every request fails, dl_image returns None after exactly
\* len(unique_urls_to_try) * max_retries requests, and none follows.
C3_ExhaustsVariants ==
    (fpc = "done" /\ \A i \in 1..Len(requests) : ~requests[i].ok) =>
        /\ dl_result = "None"
        /\ Len(requests) = Len(unique_urls_to_try) * 2

\* every variant was tried and failed
C3_Witness ==
    /\ fpc = "done"
    /\ dl_result = "None"
    /\ Len(requests) >= 20
    /\ \A i \in 1..Len(requests) : ~requests[i].ok

\* C4: the de-duplicated candidates are requested in list order, each at
\* most twice, and the first success ends the requests and returns the
\* destination path.
C4_OrderedUntilSuccess ==
    /\ \A i \in 1..Len(requests) :
           /\ (i + 1) \div 2 \in 1..Len(unique_urls_to_try)
           /\ requests[i].url = unique_urls_to_try[(i + 1) \div 2]
           /\ i < Len(requests) => ~requests[i].ok
    /\ \A i \in 1..Len(requests) :
           Cardinality({j \in 1..Len(requests) :
                            requests[j].url = requests[i].url}) <= 2
    /\ (requests # <<>> /\ Last(requests).ok) =>
           (fpc = "done" /\ dl_result = "pth")
    /\ dl_result = "pth" => (requests # <<>> /\ Last(requests).ok)

\* a later variant succeeded on its second try after earlier ones failed
C4_Witness ==
    /\ fpc = "done"
    /\ dl_result = "pth"
    /\ Len(requests) >= 4
    /\ Len(requests) % 2 = 0
    /\ Len(unique_urls_to_try) < 12

(***************************************************************************)
(* Properties of the chapter loop                                          *)
(***************************************************************************)
\* the lifecycle state of chapter c in the running process
Phase(c) ==
    IF c > ci THEN "PENDING"
    ELSE IF c < ci
         THEN (IF packaged[c] # <<>> THEN "PACKAGED" ELSE "SKIPPED")
    ELSE CASE pc \in {"entries", "downloaded"} -> "DOWNLOADING"
           [] pc = "marker" -> "PROCESSING"
           [] pc = "book" -> "PACKAGED"
           [] OTHER -> "PENDING"

\* the files of a chapter's content all date from an earlier run
FromEarlierRun(content) ==
    \A k \in 1..Len(content) : content[k].file.run < run_no

\* C5 as stated: a run that finds the temp directory of an earlier run with
\* equal parameters reuses every chapter whose completion marker is on disk
\* and does not fetch it
C5_MarkedChaptersReused ==
    \A c \in Chapters :
        (startup = "equal_params" /\ seen[c].at /\ seen[c].marker)
            => (seen[c].reused /\ fetches[c] = 0)

\* C5 (amended): under the same conditions, when the format is cbz and at
\* least one page image of the chapter is found on disk, the chapter is
\* reused: it is not fetched, and its content is the files found on disk,
\* all written by an earlier run
C5_CbzMarkedChaptersReused ==
    \A c \in Chapters :
        (/\ startup = "equal_params"
         /\ seen[c].at
         /\ seen[c].marker
         /\ fmt = "cbz"
         /\ seen[c].found)
            => /\ seen[c].reused
               /\ fetches[c] = 0
               /\ (c = ci /\ pc = "book")
                      => /\ chapter_content # <<>>
                         /\ FromEarlierRun(chapter_content)
                         /\ \A k \in 1..Len(chapter_content) :
                                chapter_content[k].file \in files[c]

C5_Witness ==
    /\ startup = "equal_params"
    /\ run_no > 1
    /\ pc = "book"
    /\ seen[ci].marker
    /\ seen[ci].reused
    /\ fetches[ci] = 0
    /\ Len(chapter_content) >= 1

\* C6 as stated: a run that resumes the kept temp directory of a completed
\* run with the same format and parameters packages, for every chapter, the
\* same files in the same order as that run did
C6_SecondRunSamePages ==
    (/\ pc = "cleanup"
     /\ startup = "equal_params"
     /\ prev.exit = "kept"
     /\ prev.fmt = fmt
     /\ prev.params = current_params)
        => packaged = prev.packaged

\* the temp directory is that of a run started clean: the process has gone
\* past the check without resuming, no chapter is reused, no file or marker
\* of an earlier run is left, and once the parameters are dumped the
\* parameter file holds the current ones
StartedClean ==
    /\ ~resume_mode
    /\ pc \notin {"check", "exited"}
    /\ \A c \in Chapters :
          /\ ~seen[c].reused
          /\ \A f \in files[c] : f.run = run_no
          /\ \A m \in markers[c] : m.run = run_no
    /\ \A f \in tmp_files : f.run = run_no
    /\ pc \in {"cover", "chapter", "entries", "downloaded", "marker", "book",
               "cleanup"}
          => params_file = ParamsFile(current_params)

C8_MarkerOnlyWhenPackaged ==
    Running =>
        \A c \in Chapters : \A m \in markers[c] :
            m.run = run_no
                => /\ Phase(c) = "PACKAGED"
                   /\ c = ci => /\ chapter_content # <<>>
                                /\ \A k \in 1..Len(chapter_content) :
                                       OnDisk(chapter_content[k].file, c)

C8_Witness ==
    /\ pc = "book"
    /\ \E m \in markers[ci] : m.run = run_no
    /\ Len(chapter_content) >= 2
    /\ \A k \in 1..Len(chapter_content) : OnDisk(chapter_content[k].file, ci)

\* C9 as stated: after a termination at any step, a rerun with the same
\* command line (a) deletes and downloads again every chapter directory found
\* without a marker, (b) packages no file of an attempt that was
\* interrupted, and (c) is not ended by an exception
C9_RerunRecovers ==
    (/\ prev.exit = "terminated"
     /\ prev.fmt = fmt
     /\ prev.params = current_params
     /\ run_no > 1)
        => /\ \A c \in Chapters :
                 (seen[c].at /\ seen[c].dir /\ ~seen[c].marker)
                     => /\ ~seen[c].reused
                        /\ fetches[c] >= 1
                        /\ \A f \in files[c] : f.run = run_no
           /\ pc = "book" =>
                 (seen[ci].marker \/ ~FromEarlierRun(chapter_content))
           /\ pc # "aborted"

\* the chapters of each part written, in order
PartSizes == [k \in 1..Len(parts) |-> Len(parts[k].chapters)]

\* ceil(n / k) parts of k chapters, the last one holding the remainder
ExpectedSizes(n, k) ==
    LET count == (n + k - 1) \div k IN
    [j \in 1..count |-> IF j < count THEN k ELSE n - k * (count - 1)]

AllChaptersPackaged == \A c \in Chapters : packaged[c] # <<>>

\* C10 as stated: with a chapter-count limit of k and no size limit, n
\* chapters that all produce content are written as ceil(n / k) parts of k
\* consecutive chapters, the last part holding the remainder
C10_PartsByChapterCount ==
    (/\ pc \in {"cleanup", "done"}
     /\ split_chapter_count > 0
     /\ split_size_bytes = 0
     /\ AllChaptersPackaged)
        => PartSizes = ExpectedSizes(num_chapters, split_chapter_count)

\* C10 (amended): the same, for the formats that write an archive (pdf,
\* epub, cbz); the parts hold the chapters 1..n in order
C10_ArchivePartsByChapterCount ==
    (/\ pc \in {"cleanup", "done"}
     /\ split_chapter_count > 0
     /\ split_size_bytes = 0
     /\ AllChaptersPackaged
     /\ fmt \in {"pdf", "epub", "cbz"})
        => /\ PartSizes = ExpectedSizes(num_chapters, split_chapter_count)
           /\ Flatten([k \in 1..Len(parts) |-> parts[k].chapters])
                  = [c \in 1..num_chapters |-> c]

C10_Witness ==
    /\ pc = "done"
    /\ fmt = "cbz"
    /\ split_chapter_count = 2
    /\ split_size_bytes = 0
    /\ num_chapters = 5
    /\ AllChaptersPackaged
    /\ PartSizes = <<2, 2, 1>>

\* the book in progress crosses the byte threshold with the chapter at hand
OverSize ==
    /\ current_book_content # <<>>
    /\ current_book_size + chapter_content_size > split_size_bytes

\* C11 as stated: with a byte threshold S > 0, the step that adds a chapter
\* first flushes the book in progress exactly when the book is non-empty and
\* its size plus the chapter's size exceeds S (the chapter then starts a new
\* part; otherwise it joins the part in progress), and a part that holds two
\* or more chapters never has a size above S
C11_FlushedWhenOverSize ==
    /\ []((split_size_bytes > 0 /\ Len(current_book_chapters) >= 2)
              => current_book_size <= split_size_bytes)
    /\ [][(pc = "book" /\ split_size_bytes > 0)
              => IF OverSize
                 THEN /\ current_book_chapters' = <<ci>>
                      /\ current_book_size' = chapter_content_size
                      /\ fmt # "none" => /\ Len(parts') = Len(parts) + 1
                                         /\ Last(parts').chapters
                                                = current_book_chapters
                 ELSE /\ current_book_chapters'
                             = Append(current_book_chapters, ci)
                      /\ current_book_size'
                             = current_book_size + chapter_content_size
                      /\ parts' = parts]_vars

\* the chapters that produced content, in processing order
ContentChapters ==
    SelectSeq([c \in 1..num_chapters |-> c], LAMBDA c : packaged[c] # <<>>)

\* C12: for pdf, epub and cbz with splitting enabled, when the run finishes
\* the built parts, read in order, hold the chapters that produced content,
\* each exactly once and in ascending order (so every part is a contiguous
\* run of them and nothing is left in an unflushed part), and the parts'
\* files are those chapters' files
C12_PartsCoverContentChapters ==
    (/\ pc \in {"cleanup", "done"}
     /\ splitting
     /\ fmt \in {"pdf", "epub", "cbz"})
        => /\ Flatten([k \in 1..Len(parts) |-> parts[k].chapters])
                  = ContentChapters
           /\ \A k \in 1..Len(parts) : parts[k].chapters # <<>>
           /\ SelectSeq(Flatten([k \in 1..Len(parts) |-> parts[k].content]),
                        LAMBDA f : f # Name(CoverFile))
                  = Flatten([k \in 1..Len(ContentChapters) |->
                                 packaged[ContentChapters[k]]])

\* a finished run whose last part was flushed below the limit and which
\* skipped a chapter without content
C12_Witness ==
    /\ pc = "done"
    /\ fmt = "pdf"
    /\ split_chapter_count = 2
    /\ Len(parts) = 2
    /\ Len(Last(parts).chapters) = 1
    /\ Len(ContentChapters) < num_chapters

\* a chap string that writes a whole number: no fractional digit but "0"
WholeNumbered(c) ==
    \A k \in DOMAIN FracDigits(c.chap) : FracDigits(c.chap)[k] = "0"

ChapsOf(chs) == [k \in DOMAIN chs |-> chs[k].chap]

\* C13: with --no-partials the selection keeps exactly the selected versions
\* whose chapter number is whole, in their ascending order
C13_NoPartialsKeepsWholeNumbers ==
    (spc \in {"selected", "exited"} /\ no_partials)
        => /\ selected_chapters = SelectSeq(best_chapters, WholeNumbered)
           /\ \A i, j \in DOMAIN selected_chapters :
                  i < j => float(selected_chapters[i].chap)
                               <= float(selected_chapters[j].chap)

\* chapters 2, 1.5, 1 listed by the adapter give exactly 1, 2
C13_Witness ==
    /\ spc = "selected"
    /\ no_partials
    /\ ChapsOf(pool) = << <<"2">>, <<"1", ".", "5">>, <<"1">> >>
    /\ ChapsOf(selected_chapters) = << <<"1">>, <<"2">> >>

\* C14 as stated: after selection no two selected chapters have the same
\* chapter number, whatever strings the adapter wrote it with
C14_OneVersionPerNumber ==
    spc \in {"selected", "exited"}
        => \A i, j \in DOMAIN selected_chapters :
               i # j => float(selected_chapters[i].chap)
                            # float(selected_chapters[j].chap)

\* version i of the list is of a group named in --group
InPreferredGroup(i) ==
    /\ i \in DOMAIN versions
    /\ \E g \in DOMAIN preferred_groups :
           versions[i].group_name = preferred_groups[g]

\* C15 as stated: with mix_by_upvote and a preferred-group list, when only
\* upvote counts change, the version returned before and the version
\* returned after both belong to a preferred group
C15_WinnerStaysPreferred ==
    [][(/\ bpc \in {"returned", "reselected"}
        /\ mix_by_upvote
        /\ preferred_groups # <<>>
        /\ versions # <<>>
        /\ versions' # versions)
           => InPreferredGroup(best) /\ InPreferredGroup(best')]_vars

\* C15 (amended): the same, when at least one version of the chapter number
\* belongs to a preferred group
C15_WinnerStaysPreferredIfAny ==
    [][(/\ bpc \in {"returned", "reselected"}
        /\ mix_by_upvote
        /\ \E i \in DOMAIN versions : InPreferredGroup(i)
        /\ versions' # versions)
           => InPreferredGroup(best) /\ InPreferredGroup(best')]_vars

\* after a change of upvotes a version outside the preferred groups has the
\* most upvotes, and the version returned is of a preferred group
C15_Witness ==
    /\ bpc = "reselected"
    /\ mix_by_upvote
    /\ InPreferredGroup(best)
    /\ \E j \in DOMAIN versions :
           /\ ~InPreferredGroup(j)
           /\ versions[j].up_count > versions[best].up_count

C17_PageCountIsEntryCount ==
    (apc = "built" /\ arc_fmt = "cbz")
        => /\ Len(archive.info) = 1
           /\ archive.info[1].PageCount = Len(archive.entries)
           /\ Len(archive.entries) = Len(arc_items)

C17_Witness ==
    /\ apc = "built"
    /\ arc_fmt = "cbz"
    /\ Len(archive.entries) = MaxItems
    /\ \E j, k \in DOMAIN archive.entries :
           archive.entries[j].name.ext # archive.entries[k].name.ext

\* the order of file names: character by character, a prefix first
NameBefore(a, b) ==
    \/ Len(a) < Len(b) /\ SubSeq(b, 1, Len(a)) = a
    \/ \E k \in 1..Len(a) :
          /\ k <= Len(b)
          /\ SubSeq(a, 1, k - 1) = SubSeq(b, 1, k - 1)
          /\ DigitValue(a[k]) < DigitValue(b[k])

\* C18: an archive that was built holds its inputs in input order: the k-th
\* CBZ entry is the k-th image and is named by the zero-padded number k - 1,
\* so that the names ascend; the EPUB spine is the cover page, if any, then
\* one itemref per item in input order; the merged PDF holds the pages of
\* the first input, then those of the second, and so on
C18_ArchiveKeepsOrder ==
    apc = "built"
        => /\ arc_fmt = "cbz" =>
                \A k \in DOMAIN archive.entries :
                    /\ archive.entries[k].source = k
                    /\ Len(archive.entries[k].name.stem) = pad_width
                    /\ DecimalValue(archive.entries[k].name.stem) = k - 1
                    /\ archive.entries[k].name.ext = arc_items[k].ext
                    /\ k > 1 => NameBefore(archive.entries[k - 1].name.stem,
                                           archive.entries[k].name.stem)
           /\ arc_fmt = "epub" =>
                LET c == IF arc_cover THEN 1 ELSE 0 IN
                /\ Len(archive.spine) = c + Len(arc_items)
                /\ arc_cover => archive.spine[1].source = 0
                /\ \A k \in DOMAIN arc_items :
                       archive.spine[c + k].source = k
                /\ \A j, k \in DOMAIN archive.spine :
                       j # k => archive.spine[j].idref # archive.spine[k].idref
           /\ arc_fmt = "pdf" =>
                /\ Len(archive.pages)
                       = SeqSum([k \in DOMAIN arc_items |-> arc_items[k].pages])
                /\ \A j, k \in DOMAIN archive.pages :
                       j < k => \/ archive.pages[j][1] < archive.pages[k][1]
                                \/ /\ archive.pages[j][1] = archive.pages[k][1]
                                   /\ archive.pages[j][2] < archive.pages[k][2]

\* an EPUB with a cover whose items are a text between two images
C18_Witness ==
    /\ apc = "built"
    /\ arc_fmt = "epub"
    /\ arc_cover
    /\ Len(arc_items) = 3
    /\ arc_items[1].type = "image"
    /\ arc_items[2].type = "xhtml"
    /\ arc_items[3].type = "image"
    /\ archive.spine[3].idref = <<"text", 0>>

\* C19 as stated: a chapter of which an image or a text was fetched is
\* processed, whatever images of it were missing or undecodable: the step
\* that follows the download leads to the chapter's content
C19_ImageProblemsNeverAbort ==
    [][(pc = "downloaded" /\ (raw_image_paths # <<>> \/ text_blocks > 0))
           => /\ pc' = "marker"
              /\ ci' = ci]_vars

\* C20 as stated: the steps that compose and package a chapter either
\* succeed or give the chapter up and go on to the next one; the run is
\* never ended by them
C20_ChapterFailureContinues ==
    [][(pc \in {"downloaded", "marker", "book"})
           => /\ pc' \in {"marker", "book", "chapter"}
              /\ ci' \in {ci, ci + 1}]_vars

\* C21: with target_height = 0 process_chapter_images terminates (and
\* returns one page per decodable input image, scaled to target_width).
C21_ZeroHeightReturns == (target_h = 0) ~> (cpc = "returned")

\* C22: a run never reuses chapter files of a run whose options made the
\* adapter serve other bytes: the files collected for a chapter found
\* "already processed" were downloaded in the language of the current run.
C22_ReusedFilesSameLanguage ==
    (pc = "book" /\ seen[ci].reused)
        => \A k \in 1..Len(chapter_content) :
               chapter_content[k].file.lang = language

\* C23: when building an archive raised, no file is left at the output path
\* of that archive.
C23_NoPartialArchive == apc = "raised" => ~archive.written

\* a chapter whose every media entry failed to download
Mediumless(c) == \A k \in DOMAIN media[c] : media[c][k] = "dead"

\* C24: a chapter for which no image was fetched and no text block was
\* returned is skipped: the step after its downloads goes on to the next
\* chapter and changes neither the markers nor the book nor the parts; the
\* chapter has no marker, is in no part and not in the book being filled,
\* and with a chapter-count limit every part flushed at the limit holds
\* exactly that many chapters, the skipped ones not counted.
C24_EmptyChapterSkipped ==
    /\ [](\A c \in Chapters :
            Mediumless(c)
                => /\ markers[c] = {}
                   /\ packaged[c] = <<>>
                   /\ \A k \in 1..Len(current_book_chapters) :
                          current_book_chapters[k] # c
                   /\ \A j \in 1..Len(parts) :
                          \A k \in 1..Len(parts[j].chapters) :
                              parts[j].chapters[k] # c)
    /\ []((split_chapter_count > 0 /\ fmt \in {"pdf", "epub", "cbz"})
            => \A j \in 1..Len(parts) :
                   (j < Len(parts) \/ pc \notin {"cleanup", "done"})
                       => Len(parts[j].chapters) = split_chapter_count)
    /\ [][(pc = "downloaded" /\ raw_image_paths = <<>> /\ text_blocks = 0)
            => /\ pc' = "chapter"
               /\ ci' = ci + 1
               /\ UNCHANGED <<diskVars, parts, current_book_content,
                              current_book_chapters,
                   current_epub_markers, current_book_size>>]_vars

\* a finished run that skipped a chapter between two chapters with content
\* and flushed a part of two chapters around it
C24_Witness ==
    /\ pc = "done"
    /\ split_chapter_count = 2
    /\ fmt = "cbz"
    /\ \E c \in Chapters :
           /\ Mediumless(c)
           /\ c > 1
           /\ c < num_chapters
           /\ packaged[c - 1] # <<>>
           /\ packaged[c + 1] # <<>>
           /\ parts # <<>>
           /\ parts[1].chapters = <<c - 1, c + 1>>

\* the pages of the strips built so far, strip after strip
StripPages == Flatten([j \in 1..Len(final_strips) |-> final_strips[j].pages])

\* C25: recombine_scaled_images partitions the scaled pages, in order, into
\* consecutive non-empty groups: the strips and the open buffer hold the
\* pages read so far, each exactly once and in input order; a strip was
\* closed exactly when the next page would have made it taller than
\* recombine_height (it is not taller than recombine_height unless it is a
\* single page, and the page after it would not have fitted); the height of
\* a strip is the sum of its pages' heights, so the total height is kept.
C25_StripsPartitionPages ==
    /\ StripPages \o (IF rpc = "returned" THEN <<>> ELSE strip_buffer)
           = [k \in 1..scaled_i |-> k]
    /\ rpc = "returned" => scaled_i = Len(scaled_images)
    /\ \A j \in 1..Len(final_strips) :
           LET strip == final_strips[j]
               next == Last(strip.pages) + 1
           IN  /\ strip.pages # <<>>
               /\ strip.height = TotalHeight(strip.pages)
               /\ strip.height <= recombine_height \/ Len(strip.pages) = 1
               /\ next <= scaled_i
                      => strip.height + scaled_images[next] > recombine_height
    /\ rpc = "returned"
           => SeqSum([j \in 1..Len(final_strips) |-> final_strips[j].height])
                  = SeqSum(scaled_images)

\* a call that returned a strip of two pages filled to the limit, followed
\* by a single page taller than the limit and a last strip
C25_Witness ==
    /\ rpc = "returned"
    /\ Len(final_strips) >= 3
    /\ Len(final_strips[1].pages) = 2
    /\ final_strips[1].height = recombine_height
    /\ \E j \in 1..Len(final_strips) : final_strips[j].height > recombine_height

\* C26 as stated: the strategies run in the order append, page by page,
\* merger, each one after the failure of the one before, and the error is
\* raised only after all three have failed.
\* (a strategy the installed pypdf does not offer counts as failed)
C26_ThreeStrategiesInOrder ==
    LET offered == {"pages"} \cup (IF pypdf.append THEN {"append"} ELSE {})
                             \cup (IF pypdf.merger THEN {"merger"} ELSE {})
        priority == [s \in Strategies |->
                        CASE s = "append" -> 1 [] s = "pages" -> 2
                          [] s = "merger" -> 3]
    IN  /\ \A j, k \in 1..Len(tried) :
               j < k => priority[tried[j]] < priority[tried[k]]
        /\ mpc = "raised" => offered \subseteq Range(tried)

\* C26 (amended): the first attempt uses PdfWriter, with its append API when
\* the writer has one and page by page otherwise; the second attempt, made
\* only after the first failed, uses PdfMerger; the error is raised only
\* after both attempts failed (PdfMerger missing counts as failed), and a
\* return means the attempt made last wrote the file.
C26_WriterThenMerger ==
    LET first == IF pypdf.append THEN "append" ELSE "pages" IN
    /\ mpc = "writer" => tried = <<>>
    /\ mpc = "merger" => tried = <<first>> /\ first \in raising
    /\ mpc = "returned"
           => /\ tried \in {<<first>>, <<first, "merger">>}
              /\ Last(tried) \notin raising
              /\ Len(tried) = 2 => first \in raising
              /\ merged.written
    /\ mpc = "raised"
           => /\ first \in raising
              /\ ~pypdf.merger \/ "merger" \in raising
              /\ tried = IF pypdf.merger THEN <<first, "merger">> ELSE <<first>>
              /\ ~merged.written

\* append raised, page by page would not have, and the merger was run next
\* and raised too
C26_Witness ==
    /\ mpc = "raised"
    /\ tried = <<"append", "merger">>
    /\ "pages" \notin raising

\* C27: every returned line fits the width, and the characters of the
\* returned lines, spaces left out, are the characters of the input words in
\* order: a word wider than the line is cut into segments that are all
\* emitted.
C27_NoCharacterLost ==
    wpc = "returned"
        => /\ \A k \in 1..Len(lines) : _measure_text(lines[k]) <= max_width
           /\ SelectSeq(Flatten(lines), LAMBDA ch : ch # Space)
                  = Flatten(words)

\* C28: every text line is drawn at a position y with
\* y + line_height <= height - margin; the committed pages are numbered
\* consecutively from start_index; no committed page is empty.
C28_LinesInsidePages ==
    /\ \A k \in 1..Len(drawn) :
           drawn[k].y + line_height <= page_height - margin
    /\ output_paths = [k \in 1..Len(output_paths) |-> start_index + k - 1]
    /\ \A k \in 1..Len(output_paths) :
           \E d \in 1..Len(drawn) : drawn[d].page = output_paths[k]

\* C29: a part build is never triggered while the part's chapter list is
\* empty: neither at a split boundary nor for the last part.
C29_BuildHasChapters ==
    /\ (pc = "book" /\ split_now /\ fmt # "none")
           => current_book_chapters # <<>>
    /\ (pc = "chapter" /\ ci > num_chapters /\ splitting /\ fmt # "none"
        /\ current_book_content # <<>>)
           => current_book_chapters # <<>>

\* the first item a chapter contributed to the book being filled
FirstItemOf(c) ==
    LET docs == page_docs(current_book_content)
        first == CHOOSE k \in 1..Len(docs) :
                     /\ docs[k].ch = c
                     /\ \A j \in 1..(k - 1) : docs[j].ch # c
    IN  docs[first]

\* C30: in an epub book - as it is handed to build_epub at a split boundary
\* or at the end, and at every step before - each chapter marker's
\* page_index is the position among the image and xhtml items of the first
\* item of its chapter and is smaller than the number of page documents, so
\* nav.xhtml has one entry per chapter of the part, in order, targeting the
\* chapter's first page.
C30_MarkersTargetFirstPages ==
    (fmt = "epub" /\ Running)
        => /\ \A k \in 1..Len(current_epub_markers) :
                  LET mk == current_epub_markers[k] IN
                  /\ mk.page_index < Len(page_docs(current_book_content))
                  /\ page_docs(current_book_content)[mk.page_index + 1]
                         = FirstItemOf(mk.ch)
           /\ nav_entries(current_book_content, current_epub_markers)
                  = [k \in 1..Len(current_book_chapters) |->
                        [ch |-> current_book_chapters[k],
                         target |-> FirstItemOf(current_book_chapters[k])]]

\* a book about to be flushed, begun after an earlier split with a chapter
\* other than the first, whose second chapter starts on a later page
C30_Witness ==
    /\ fmt = "epub"
    /\ pc = "book"
    /\ split_now
    /\ parts # <<>>
    /\ Len(current_epub_markers) >= 2
    /\ current_epub_markers[1].page_index = 0
    /\ current_epub_markers[1].ch > 1
    /\ current_epub_markers[2].page_index >= 1

====
